---- MODULE Spec2Model ----
(***************************************************************************)
(* github-gold-miner: the mining cycle (service.MiningService), the        *)
(* concurrent appraisal pool (analyzer.RepoAnalyzer) and the retry         *)
(* executor (common.Do), as state machines.                                *)
(*                                                                         *)
(* Spec      mining cycles against one store: cycles that run one after    *)
(*           another (mode "sequential") and two overlapping cycles        *)
(*           (mode "overlapping", as cron starts them).                    *)
(* SpecPool  one AnalyzeWithLLM call: workers, the three channels, the     *)
(*           outer context.                                                *)
(* SpecPoolFair  the same call under a fair scheduler.                     *)
(* SpecRetry one call of Do.                                               *)
(* SpecFilter one call of FilterByCreatedAt, FilterByRecentCommit,         *)
(*           isReadmeFile or CalculateStarGrowthRate.                      *)
(***************************************************************************)
EXTENDS Integers, Sequences, FiniteSets, TLC

VARIABLES
    mode,          \* "sequential" | "overlapping" | "scenario": how cycles
                   \* are scheduled and what the collaborators answer
    notifierSet,   \* MiningService.notifier # nil
    maxGoroutines, \* RepoAnalyzer.maxGoroutines
    store,         \* the repos table: id -> row (Absent when there is none)
    cyc,           \* per running ExecuteMiningCycle call: locals and position
    started,       \* number of cycles started so far
    pool,          \* one AnalyzeWithLLM call: the caller, channels, context
    wk,            \* the worker goroutines of that call
    rt,            \* one call of Do: its arguments, locals and position
    ft             \* one call of a RepoFilter or RepoAnalyzer stage

mineVars == <<mode, notifierSet, maxGoroutines, store, cyc, started>>

poolVars == <<pool, wk>>

\* What a mining cycle leaves alone.
outsideCycle == <<poolVars, rt, ft>>

vars == <<mineVars, poolVars, rt, ft>>

----------------------------------------------------------------------------
(* Bounds *)

\* cycles started in one behaviour
MaxCycles == 2

\* longest list handed to AnalyzeWithLLM
MaxPoolRepos == 3

\* most options passed to one call of Do
MaxOpts == 2

\* latest call on which the retried operation succeeds
MaxSucceedAt == 4

\* largest time.Duration: the int64 range of the type, scaled down
MaxDuration == 127

\* longest list handed to a filter or to CalculateStarGrowthRate
MaxStageRepos == 3

\* longest list handed to FilterByRecentCommit
MaxCommitRepos == 2

\* Slots in which an ExecuteMiningCycle call can run. Slot 2 is used only
\* when cycles overlap.
Slots == {1, 2}

\* Identifiers of repositories: a and b are young enough for the cycle, c
\* and d are older than the age threshold.
IDs == {"a", "b", "c", "d"}

----------------------------------------------------------------------------
(* domain.Repo *)

\* A repository as the fetcher builds it: the appraisal fields and the
\* notified flag are Go zero values. age is now - CreatedAt in whole hours,
\* rate a fraction <<numerator, denominator>>.
HoursPerDay == 24

\* n days as a duration
Days(n) == n * HoursPerDay

NewRepo(id, age) ==
    [id |-> id, age |-> age, stars |-> 100, rate |-> <<0, 1>>,
     flag |-> FALSE, score |-> 0, review |-> "", notified |-> FALSE]

\* A row of the repos table; present = FALSE stands for "no row with this id".
Absent == [present |-> FALSE, notified |-> FALSE, score |-> 0]

----------------------------------------------------------------------------
(* Collaborator outcomes the cycle can see *)

Topics == <<"ai-coding", "ide-extension", "dev-tools">>

\* Fetcher.GetTrendingRepos: the lists it can return on success.
TrendingOuts(m) ==
    CASE m = "sequential" ->
           {<<NewRepo("a", Days(3))>>,
            <<NewRepo("a", Days(3)), NewRepo("c", Days(20))>>}
      [] m = "scenario" -> {<<NewRepo("a", Days(3)), NewRepo("c", Days(20))>>}
      [] OTHER -> {<<NewRepo("a", Days(3))>>}

\* Fetcher.GetReposByTopic: the lists it can return on success.
TopicOuts(m, topic) ==
    IF m = "sequential"
    THEN CASE topic = "ai-coding"     -> {<<NewRepo("b", Days(10))>>, <<NewRepo("a", Days(3))>>}
           [] topic = "ide-extension" -> {<<NewRepo("d", Days(11))>>}
           [] OTHER                   -> {<<>>, <<NewRepo("c", Days(20))>>}
    ELSE {<<>>}

\* Appraiser.Appraise: what a successful appraisal can report.
AppraisalOuts(m) ==
    IF m = "sequential"
    THEN {[ok |-> TRUE, flag |-> FALSE, score |-> 80, review |-> "n"],
          [ok |-> TRUE, flag |-> TRUE, score |-> 49, review |-> "l"],
          [ok |-> TRUE, flag |-> TRUE, score |-> 50, review |-> "h"]}
    ELSE IF m = "scenario"
    THEN {[ok |-> TRUE, flag |-> TRUE, score |-> 80, review |-> "g"]}
    ELSE {[ok |-> TRUE, flag |-> TRUE, score |-> 50, review |-> "h"]}

\* Appraiser.Appraise returning an error (or running into the item's timeout).
AppraiseFail == [ok |-> FALSE, flag |-> FALSE, score |-> 0, review |-> ""]

\* Values of the concurrency argument.
ConcurrencyIn(m) == IF m = "sequential" THEN {0, 2} ELSE {2}

\* Whether a collaborator call fails: either way when cycles run one after
\* another; the overlapping cycles and the end-to-end scenario (one
\* trending list of a repository aged 3 days and one aged 20, no topic
\* repositories, a qualifying appraisal of score 80) are explored with
\* calls that succeed.
Fails(m) == IF m = "sequential" THEN {FALSE, TRUE} ELSE {FALSE}

\* Filter.FilterByRecentCommit: the lists it can return for an input.
ActivityOuts(m, repos) ==
    IF m = "sequential" /\ Len(repos) > 0
    THEN {repos, Tail(repos), <<>>}
    ELSE {repos}

----------------------------------------------------------------------------
(* Pure stages *)

\* RepoFilter.FilterByCreatedAt: keep a repository iff its age is at most
\* maxDaysOld days.
\* A slip: a repository of exactly the greatest age is dropped.
WithinAgeStrict(age, maxAge) == age < maxAge

\* current.Sub(repo.CreatedAt) <= maxAge
WithinAge(age, maxAge) == age <= maxAge

FilterByCreatedAt(repos, maxDaysOld) ==
    LET maxAge == maxDaysOld * HoursPerDay
    IN SelectSeq(repos, LAMBDA r : WithinAge(r.age, maxAge))

\* RepoAnalyzer.CalculateStarGrowthRate
\* A slip: an age of zero is divided by.
NotAliveNegative(age) == age < 0

\* daysAlive <= 0
NotAlive(age) == age <= 0

\* daysAlive is age / HoursPerDay, so Stars / daysAlive is the fraction
\* Stars * HoursPerDay / age.
CalculateStarGrowthRate(repos) ==
    [i \in DOMAIN repos |->
        [repos[i] EXCEPT !.rate = IF NotAlive(repos[i].age)
                                  THEN <<0, 1>>
                                  ELSE <<repos[i].stars * HoursPerDay,
                                         repos[i].age>>]]

\* RepoAnalyzer.SetMaxGoroutines
SetMaxGoroutines(cur, max) == IF max > 0 THEN max ELSE cur

\* A slip: the fields of the returned record are copied without looking at
\* the error, so a failed appraisal overwrites them with zero values.
AppraisedUnchecked(repo, out) ==
    [repo EXCEPT !.flag = out.flag, !.score = out.score, !.review = out.review]

\* A slip: the record the appraiser returned is copied whole, so that the
\* growth rate computed before the analysis is lost.
AppraisedWhole(repo, out) ==
    IF ~out.ok
    THEN repo
    ELSE [repo EXCEPT !.flag = out.flag, !.score = out.score,
                      !.review = out.review, !.rate = <<0, 1>>]

\* analyzeRepoWorker's update of one repository from an appraisal outcome:
\* a failed appraisal leaves the record as it is.
Appraised(repo, out) ==
    IF ~out.ok
    THEN repo
    ELSE [repo EXCEPT !.flag = out.flag, !.score = out.score,
                      !.review = out.review]

\* The qualification bar of the persist stage.
ScoreThreshold == 50

\* A slip: && where the code has ||, so that one of the two tests suffices.
QualifiesEither(repo) == ~(~repo.flag /\ repo.score < ScoreThreshold)

Qualifies(repo) == ~(~repo.flag \/ repo.score < ScoreThreshold)

\* The age threshold the cycle passes to FilterByCreatedAt.
MaxDaysOld == 10

----------------------------------------------------------------------------
(* MiningService.ExecuteMiningCycle *)

\* Locals of a call that has not started. errs (the stages that reported an
\* error, which the code only logs), log (the persist stage's collaborator
\* calls), prior (the identifiers stored when the call began), fetched (the
\* fetcher calls of the cycle, kept until the activity filter has run) and
\* cut (where the call stood when its context was cancelled) are history;
\* the rest are the locals of ExecuteMiningCycle.
IdleCycle ==
    [pc |-> "idle", ctxDone |-> FALSE, topic |-> 0, trending |-> <<>>,
     topicRepos |-> <<>>, repos |-> <<>>, idx |-> 0, successCount |-> 0,
     ret |-> "none", errs |-> {}, log |-> <<>>, prior |-> {},
     fetched |-> <<>>, cut |-> "none"]

\* One fetcher call as the history records it.
Fetch(src, ok, out) == [src |-> src, ok |-> ok, out |-> out]

Fetched(c, src, ok, out) ==
    [c EXCEPT !.fetched = Append(c.fetched, Fetch(src, ok, out))]

\* The steps of a cycle before its persist loop.
PreLoop == {"trending", "topic", "filterAge", "filterActivity", "growth", "llm"}

\* One collaborator call of the persist stage, as the call log records it:
\* i is the position of the repository in the analyzed set.
Call(op, i, id, ok, present) ==
    [op |-> op, i |-> i, id |-> id, ok |-> ok, present |-> present]

Cur(s) == cyc[s].repos[cyc[s].idx]

\* A slip: `break` where the code has `continue`.
NextRepoBreak(c) == [c EXCEPT !.pc = "finish"]

\* `continue`: on to the next repository of the loop.
NextRepo(c) == [c EXCEPT !.idx = c.idx + 1, !.pc = "loop"]

Logged(c, call) == [c EXCEPT !.log = Append(c.log, call)]

\* RepoAnalyzer's default number of workers.
DefaultMaxGoroutines == 3

Workers == 1..DefaultMaxGoroutines

\* No AnalyzeWithLLM call has been made. setArg is history: the argument
\* of the latest SetMaxGoroutines call before AnalyzeWithLLM, if any.
PoolIdle ==
    [pc |-> "idle", setArg |-> <<>>, ctxDone |-> FALSE, input |-> <<>>,
     heap |-> <<>>,
     sent |-> 0, jobs |-> <<>>, jobsClosed |-> FALSE,
     results |-> <<>>, errors |-> <<>>, closed |-> FALSE,
     waiter |-> FALSE, doneClosed |-> FALSE, appr |-> <<>>,
     panic |-> FALSE, ret |-> [list |-> <<>>, err |-> "none", running |-> {}]]

WorkersOff == [w \in Workers |-> [pc |-> "off", job |-> 0]]

\* Errors as values: <<kind, n>>. NoErr is Go's nil, Err(k) the error the
\* retried operation returns from its k-th call, CtxErr is ctx.Err().
NoErr == <<"nil", 0>>

Err(k) == <<"err", k>>

CtxErr == <<"ctx", 0>>

\* defaultConfig(), delays in seconds
defaultConfig ==
    [maxRetries |-> 3, initialDelay |-> 1, maxDelay |-> 30, multiplier |-> 2]

\* No call of Do has been made.
RetryIdle ==
    [pc |-> "idle", fnNil |-> FALSE, succeedAt |-> 0, opts |-> <<>>,
     cfg |-> defaultConfig, ctxDone |-> FALSE, timerFired |-> FALSE,
     attempt |-> 0, calls |-> 0, lastErr |-> NoErr, delays |-> <<>>,
     ret |-> [kind |-> "none", n |-> 0, max |-> 0, cause |-> NoErr]]

\* No stage has been called.
StageIdle == [op |-> "none"]

TypeOK ==
    /\ mode \in {"sequential", "overlapping", "scenario"}
    /\ notifierSet \in BOOLEAN
    /\ maxGoroutines \in 1..3
    /\ started \in 0..MaxCycles
    /\ \A id \in IDs : store[id].present \in BOOLEAN

Init ==
    /\ mode \in {"sequential", "overlapping", "scenario"}
    /\ notifierSet \in BOOLEAN
    /\ maxGoroutines = DefaultMaxGoroutines
    /\ store = [id \in IDs |-> Absent]
    /\ cyc = [s \in Slots |-> IdleCycle]
    /\ started = 0
    /\ pool = PoolIdle
    /\ wk = WorkersOff
    /\ rt = RetryIdle
    /\ ft = StageIdle

\* A call of ExecuteMiningCycle begins: SetMaxGoroutines(concurrency).
\* Cycles that do not overlap all run in slot 1, each after the previous
\* one returned.
Start(s) ==
    /\ cyc[s].pc \in {"idle", "done"}
    /\ started < MaxCycles
    /\ mode # "overlapping" => s = 1
    /\ \E n \in ConcurrencyIn(mode) :
          maxGoroutines' = SetMaxGoroutines(maxGoroutines, n)
    /\ cyc' = [cyc EXCEPT ![s] =
                  [IdleCycle EXCEPT !.pc = "trending",
                                    !.prior = {id \in IDs : store[id].present}]]
    /\ started' = started + 1
    /\ UNCHANGED <<mode, notifierSet, store, outsideCycle>>

\* The context of the call is cancelled or reaches its deadline.
Cancel(s) ==
    /\ cyc[s].pc \notin {"idle", "done"}
    /\ ~cyc[s].ctxDone
    /\ cyc' = [cyc EXCEPT ![s].ctxDone = TRUE,
                          ![s].cut = IF cyc[s].pc \in PreLoop
                                     THEN cyc[s].pc ELSE "loop"]
    /\ UNCHANGED <<mode, notifierSet, maxGoroutines, store, started, outsideCycle>>

\* fetcher.GetTrendingRepos: a failure is logged, the call returns no list.
FetchTrending(s) ==
    /\ cyc[s].pc = "trending"
    /\ \E fail \in Fails(mode) :
          IF fail
          THEN cyc' = [cyc EXCEPT ![s] =
                         [Fetched(cyc[s], "trending", FALSE, <<>>)
                            EXCEPT !.trending = <<>>,
                                   !.errs = @ \cup {"trending"},
                                   !.pc = "topic", !.topic = 1]]
          ELSE \E out \in TrendingOuts(mode) :
                  cyc' = [cyc EXCEPT ![s] =
                            [Fetched(cyc[s], "trending", TRUE, out)
                               EXCEPT !.trending = out,
                                      !.pc = "topic", !.topic = 1]]
    /\ UNCHANGED <<mode, notifierSet, maxGoroutines, store, started, outsideCycle>>

\* A slip: a failed topic fetch discards the topics fetched so far.
TopicFailedDropsAll(c) ==
    [c EXCEPT !.errs = @ \cup {"topic"}, !.topicRepos = <<>>]

\* A topic fetch failed: the error is logged, `continue`.
TopicFailed(c) == [c EXCEPT !.errs = @ \cup {"topic"}]

\* One iteration of the loop over topics: fetcher.GetReposByTopic.
FetchTopic(s) ==
    /\ cyc[s].pc = "topic"
    /\ LET k == cyc[s].topic
           after(c) == IF k = Len(Topics)
                       THEN [c EXCEPT !.pc = "filterAge"]
                       ELSE [c EXCEPT !.topic = k + 1]
       IN \E fail \in Fails(mode) :
             IF fail
             THEN cyc' = [cyc EXCEPT ![s] =
                            after(TopicFailed(
                                     Fetched(cyc[s], Topics[k], FALSE, <<>>)))]
             ELSE \E out \in TopicOuts(mode, Topics[k]) :
                     cyc' = [cyc EXCEPT ![s] =
                               after([Fetched(cyc[s], Topics[k], TRUE, out)
                                        EXCEPT !.topicRepos = @ \o out])]
    /\ UNCHANGED <<mode, notifierSet, maxGoroutines, store, started, outsideCycle>>

\* allRepos := append(trendingRepos, topicRepos...); FilterByCreatedAt(.., 10)
FilterAge(s) ==
    /\ cyc[s].pc = "filterAge"
    /\ cyc' = [cyc EXCEPT
                 ![s].repos = FilterByCreatedAt(
                                 cyc[s].trending \o cyc[s].topicRepos, MaxDaysOld),
                 ![s].trending = <<>>, ![s].topicRepos = <<>>,
                 ![s].pc = "filterActivity"]
    /\ UNCHANGED <<mode, notifierSet, maxGoroutines, store, started, outsideCycle>>

\* filter.FilterByRecentCommit: the returned list replaces the working set
\* whether or not an error comes with it.
FilterActivity(s) ==
    /\ cyc[s].pc = "filterActivity"
    /\ \E fail \in Fails(mode), out \in ActivityOuts(mode, cyc[s].repos) :
          cyc' = [cyc EXCEPT
                    ![s].repos = out,
                    ![s].errs = IF fail THEN @ \cup {"activity"} ELSE @,
                    ![s].fetched = <<>>,
                    ![s].pc = "growth"]
    /\ UNCHANGED <<mode, notifierSet, maxGoroutines, store, started, outsideCycle>>

\* analyzer.CalculateStarGrowthRate
Growth(s) ==
    /\ cyc[s].pc = "growth"
    /\ cyc' = [cyc EXCEPT ![s].repos = CalculateStarGrowthRate(@),
                          ![s].pc = "llm"]
    /\ UNCHANGED <<mode, notifierSet, maxGoroutines, store, started, outsideCycle>>

\* analyzer.AnalyzeWithLLM, seen from the cycle: every repository comes
\* back, appraised or (after a failed appraisal) as it was; an error is
\* logged. (SpecPool has the pool itself, with its completion order.)
AnalyzeLLM(s) ==
    /\ cyc[s].pc = "llm"
    /\ \E fail \in Fails(mode),
          f \in [DOMAIN cyc[s].repos -> AppraisalOuts(mode) \cup {AppraiseFail}] :
          LET out == [i \in DOMAIN cyc[s].repos |->
                         Appraised(cyc[s].repos[i], f[i])]
          IN cyc' = [cyc EXCEPT
                       ![s].repos = out,
                       ![s].errs = IF fail THEN @ \cup {"llm"} ELSE @,
                       ![s].idx = 1,
                       ![s].pc = "loop"]
    /\ UNCHANGED <<mode, notifierSet, maxGoroutines, store, started, outsideCycle>>

\* A slip: the count compared with 1, so that a single row is not found.
StoreExistsMoreThanOne(st, id) == FALSE

\* PostgresRepo.Exists: count(*) > 0 of the rows with this id.
StoreExists(st, id) == st[id].present

\* PostgresRepo.Save: an upsert of the whole record, the notified flag of
\* the in-memory repository included.
StoreSave(st, repo) ==
    [st EXCEPT ![repo.id] = [present |-> TRUE, notified |-> repo.notified,
                             score |-> repo.score]]

\* A slip: the UPDATE without its WHERE clause marks every row.
StoreMarkAll(st, id) ==
    [x \in DOMAIN st |-> IF st[x].present THEN [st[x] EXCEPT !.notified = TRUE]
                                         ELSE st[x]]

\* PostgresRepo.MarkAsNotified: UPDATE ... SET already_notified = true
\* WHERE id = ?; no row with the id is no error and changes nothing.
StoreMarkAsNotified(st, id) ==
    IF st[id].present THEN [st EXCEPT ![id].notified = TRUE] ELSE st

\* A slip: the answer of Exists is logged and not acted on.
AfterExistsNoSkip(c, present) == [c EXCEPT !.pc = "save"]

\* What the loop does with the answer of Exists: a repository that is
\* already present is skipped, an absent one goes on to Save.
AfterExists(c, present) ==
    IF present THEN NextRepo(c) ELSE [c EXCEPT !.pc = "save"]

\* A slip: the repository is not counted.
CountedNot(c) == c

\* successCount++
Counted(c) == [c EXCEPT !.successCount = @ + 1]

\* After a successful Save: without a notifier the repository is done.
AfterSave(c, hasNotifier) ==
    IF hasNotifier THEN [c EXCEPT !.pc = "notify"] ELSE NextRepo(c)

\* A slip: the loop never looks at the context.
LoopStepNoCtx(c) ==
    IF c.idx > Len(c.repos) THEN [c EXCEPT !.pc = "finish"]
    ELSE IF ~Qualifies(c.repos[c.idx]) THEN NextRepo(c)
    ELSE [c EXCEPT !.pc = "exists"]

\* A slip: the context is looked at after the qualification gate.
LoopStepGateFirst(c) ==
    IF c.idx > Len(c.repos) THEN [c EXCEPT !.pc = "finish"]
    ELSE IF ~Qualifies(c.repos[c.idx]) THEN NextRepo(c)
    ELSE IF c.ctxDone THEN [c EXCEPT !.pc = "finish"]
    ELSE [c EXCEPT !.pc = "exists"]

\* The top of the persist loop: the range is exhausted, the context is
\* done (goto finish), the repository does not qualify (continue), or it
\* goes on to the existence check.
LoopStep(c) ==
    IF c.idx > Len(c.repos) THEN [c EXCEPT !.pc = "finish"]
    ELSE IF c.ctxDone THEN [c EXCEPT !.pc = "finish"]
    ELSE IF ~Qualifies(c.repos[c.idx]) THEN NextRepo(c)
    ELSE [c EXCEPT !.pc = "exists"]

LoopTop(s) ==
    /\ cyc[s].pc = "loop"
    /\ cyc' = [cyc EXCEPT ![s] = LoopStep(cyc[s])]
    /\ UNCHANGED <<mode, notifierSet, maxGoroutines, store, started, outsideCycle>>

\* A slip: a failed check is taken for "absent".
ExistsFailedSaves(c) == [c EXCEPT !.pc = "save"]

\* Exists returned an error: it is logged, `continue`.
ExistsFailed(c) == NextRepo(c)

\* repoStore.Exists(ctx, repo.ID)
Exists(s) ==
    /\ cyc[s].pc = "exists"
    /\ \E fail \in Fails(mode) :
          LET id == Cur(s).id
              i == cyc[s].idx
          IN IF fail
             THEN cyc' = [cyc EXCEPT ![s] =
                     ExistsFailed(
                        Logged(cyc[s], Call("Exists", i, id, FALSE, FALSE)))]
             ELSE cyc' = [cyc EXCEPT ![s] =
                     AfterExists(
                        Logged(cyc[s], Call("Exists", i, id, TRUE,
                                            StoreExists(store, id))),
                        StoreExists(store, id))]
    /\ UNCHANGED <<mode, notifierSet, maxGoroutines, store, started, outsideCycle>>

\* repoStore.Save(ctx, repo), then the check for a configured notifier
Save(s) ==
    /\ cyc[s].pc = "save"
    /\ \E fail \in Fails(mode) :
          LET id == Cur(s).id
              i == cyc[s].idx
          IN IF fail
             THEN /\ cyc' = [cyc EXCEPT ![s] =
                       NextRepo(Logged(cyc[s], Call("Save", i, id, FALSE, FALSE)))]
                  /\ UNCHANGED store
             ELSE /\ cyc' = [cyc EXCEPT ![s] =
                       AfterSave(Logged(cyc[s], Call("Save", i, id, TRUE, FALSE)),
                                 notifierSet)]
                  /\ store' = StoreSave(store, Cur(s))
    /\ UNCHANGED <<mode, notifierSet, maxGoroutines, started, outsideCycle>>

\* notifier.Notify(ctx, repo)
Notify(s) ==
    /\ cyc[s].pc = "notify"
    /\ \E fail \in Fails(mode) :
          LET id == Cur(s).id
              i == cyc[s].idx
          IN IF fail
             THEN cyc' = [cyc EXCEPT ![s] =
                     NextRepo(Logged(cyc[s], Call("Notify", i, id, FALSE, FALSE)))]
             ELSE cyc' = [cyc EXCEPT ![s] =
                     [Logged(cyc[s], Call("Notify", i, id, TRUE, FALSE))
                        EXCEPT !.pc = "mark"]]
    /\ UNCHANGED <<mode, notifierSet, maxGoroutines, store, started, outsideCycle>>

\* repoStore.MarkAsNotified(ctx, repo.ID); on success successCount++
MarkAsNotified(s) ==
    /\ cyc[s].pc = "mark"
    /\ \E fail \in Fails(mode) :
          LET id == Cur(s).id
              i == cyc[s].idx
          IN IF fail
             THEN /\ cyc' = [cyc EXCEPT ![s] =
                       NextRepo(Logged(cyc[s], Call("Mark", i, id, FALSE, FALSE)))]
                  /\ UNCHANGED store
             ELSE /\ cyc' = [cyc EXCEPT ![s] =
                       [Counted(Logged(cyc[s],
                                       Call("Mark", i, id, TRUE, FALSE)))
                          EXCEPT !.pc = "sleep"]]
                  /\ store' = StoreMarkAsNotified(store, id)
    /\ UNCHANGED <<mode, notifierSet, maxGoroutines, started, outsideCycle>>

\* time.Sleep(3 * time.Second), reached only after a successful mark
Sleep(s) ==
    /\ cyc[s].pc = "sleep"
    /\ cyc' = [cyc EXCEPT ![s] =
                 NextRepo(Logged(cyc[s],
                                 Call("Sleep", cyc[s].idx, Cur(s).id, TRUE, FALSE)))]
    /\ UNCHANGED <<mode, notifierSet, maxGoroutines, store, started, outsideCycle>>

\* A change of design: the context's error is returned after a cancellation.
FinishRetCtxErr(c) == IF c.ctxDone THEN "error" ELSE "nil"

\* The value ExecuteMiningCycle returns at the label finish.
FinishRet(c) == "nil"

\* finish: print the count, return.
Finish(s) ==
    /\ cyc[s].pc = "finish"
    /\ cyc' = [cyc EXCEPT ![s].pc = "done", ![s].ret = FinishRet(cyc[s])]
    /\ UNCHANGED <<mode, notifierSet, maxGoroutines, store, started, outsideCycle>>

Next ==
    \E s \in Slots :
        \/ Start(s)
        \/ Cancel(s)
        \/ FetchTrending(s)
        \/ FetchTopic(s)
        \/ FilterAge(s)
        \/ FilterActivity(s)
        \/ Growth(s)
        \/ AnalyzeLLM(s)
        \/ LoopTop(s)
        \/ Exists(s)
        \/ Save(s)
        \/ Notify(s)
        \/ MarkAsNotified(s)
        \/ Sleep(s)
        \/ Finish(s)

Spec == Init /\ [][Next]_vars

----------------------------------------------------------------------------
(* RepoAnalyzer.AnalyzeWithLLM and its workers *)

RepoNames == <<"a", "b", "c", "d">>

\* The i-th repository handed to the pool, with the growth rate computed
\* by the stage before: odd ones otherwise as the fetcher built them, even
\* ones carrying an earlier appraisal.
PoolRepo(i) ==
    LET r == CalculateStarGrowthRate(<<NewRepo(RepoNames[i], Days(3))>>)[1]
    IN IF i % 2 = 1
       THEN r
       ELSE [r EXCEPT !.flag = TRUE, !.score = 70, !.review = "old"]

PoolInputs == {[i \in 1..n |-> PoolRepo(i)] : n \in 0..MaxPoolRepos}

\* Arguments of SetMaxGoroutines.
SetMaxIn == {-1, 0, 1, 2}

\* A slip: the queues hold half an entry per repository.
CapHalf == Len(pool.input) \div 2

\* Capacity of jobs, results and errors: len(repos).
Cap == Len(pool.input)

Active(w) == wk[w].pc # "off"

\* A slip: done is closed without waiting for the workers.
AllExitedNoWait == TRUE

\* wg.Wait() returns: every worker that was started has run wg.Done().
AllExited == \A w \in Workers : Active(w) => wk[w].pc = "exited"

\* A slip: one worker more than maxGoroutines is started.
StartsWorkerOneMore(w, max) == w <= max + 1

\* for i := 0; i < a.maxGoroutines; i++ { go a.analyzeRepoWorker(..., i+1) }
StartsWorker(w, max) == w <= max

\* analyzer.SetMaxGoroutines(max), before the call
PoolSetMax ==
    /\ pool.pc = "idle"
    /\ \E n \in SetMaxIn :
          /\ maxGoroutines' = SetMaxGoroutines(maxGoroutines, n)
          /\ pool' = [pool EXCEPT !.setArg = <<n>>]
    /\ UNCHANGED <<mode, notifierSet, store, cyc, started, wk, rt, ft>>

\* AnalyzeWithLLM begins: the three channels are made and maxGoroutines
\* workers are started.
PoolCall ==
    /\ pool.pc = "idle"
    /\ \E in \in PoolInputs :
          pool' = [pool EXCEPT !.pc = "send", !.setArg = <<>>,
                               !.input = in, !.heap = in,
                               !.appr = [i \in DOMAIN in |-> <<>>]]
    /\ wk' = [w \in Workers |-> IF StartsWorker(w, maxGoroutines)
                                THEN [pc |-> "recv", job |-> 0]
                                ELSE [pc |-> "off", job |-> 0]]
    /\ UNCHANGED <<mineVars, rt, ft>>

\* The outer context is cancelled or times out.
PoolCancel ==
    /\ pool.pc \in {"send", "select"}
    /\ ~pool.ctxDone
    /\ pool' = [pool EXCEPT !.ctxDone = TRUE]
    /\ UNCHANGED <<rt, ft, mineVars, wk>>

\* for _, repo := range repos { jobs <- repo }: one send, which needs room
\* in the queue
MainSend ==
    /\ pool.pc = "send"
    /\ pool.sent < Len(pool.input)
    /\ Len(pool.jobs) < Cap
    /\ pool' = [pool EXCEPT !.sent = @ + 1, !.jobs = Append(@, pool.sent + 1)]
    /\ UNCHANGED <<rt, ft, mineVars, wk>>

\* close(jobs); the goroutine that waits for the workers is started
MainClose ==
    /\ pool.pc = "send"
    /\ pool.sent = Len(pool.input)
    /\ pool' = [pool EXCEPT !.jobsClosed = TRUE, !.waiter = TRUE,
                            !.pc = "select"]
    /\ UNCHANGED <<rt, ft, mineVars, wk>>

\* wg.Wait(); close(done)
Waiter ==
    /\ pool.waiter
    /\ ~pool.doneClosed
    /\ AllExited
    /\ pool' = [pool EXCEPT !.doneClosed = TRUE]
    /\ UNCHANGED <<rt, ft, mineVars, wk>>

\* A slip: the cancellation path hands back what the workers have queued.
CancelReturnResults(p) == p.results

\* The list returned on the cancellation path: `return repos, ctx.Err()`,
\* the input slice itself (as positions of the input).
CancelReturn(p) == [i \in DOMAIN p.input |-> i]

\* case <-done: close(results), close(errors), collect, return (.., nil)
SelectDone ==
    /\ pool.pc = "select"
    /\ pool.doneClosed
    /\ pool' = [pool EXCEPT
                  !.closed = TRUE,
                  !.ret = [list |-> pool.results, err |-> "nil",
                           running |-> {w \in Workers :
                                          Active(w) /\ wk[w].pc # "exited"}],
                  !.results = <<>>, !.errors = <<>>,
                  !.pc = "returned"]
    /\ UNCHANGED <<rt, ft, mineVars, wk>>

\* case <-ctx.Done(): return repos, ctx.Err()
SelectCtx ==
    /\ pool.pc = "select"
    /\ pool.ctxDone
    /\ pool' = [pool EXCEPT
                  !.ret = [list |-> CancelReturn(pool), err |-> "ctx",
                           running |-> {w \in Workers :
                                          Active(w) /\ wk[w].pc # "exited"}],
                  !.pc = "returned"]
    /\ UNCHANGED <<rt, ft, mineVars, wk>>

\* A slip: the job is read and left in the queue.
ReceivedPeek(jobs) == jobs

\* What a receive leaves in the jobs queue: the received job is gone.
Received(jobs) == Tail(jobs)

\* for repo := range jobs: the next job, or the end of the closed queue
WorkerRecv(w) ==
    /\ wk[w].pc = "recv"
    /\ IF pool.jobs # <<>>
       THEN /\ wk' = [wk EXCEPT ![w] = [pc |-> "appraise", job |-> Head(pool.jobs)]]
            /\ pool' = [pool EXCEPT !.jobs = Received(@)]
       ELSE /\ pool.jobsClosed
            /\ wk' = [wk EXCEPT ![w] = [pc |-> "exited", job |-> 0]]
            /\ UNCHANGED pool
    /\ UNCHANGED <<mineVars, rt, ft>>

\* A slip: `continue` right after the error is queued, before the result.
AfterSendErrContinue == "recv"

\* After `errors <- ...` the worker sends the original repository.
AfterSendErr == "sendRes"

\* appraiser.Appraise(projectCtx, repo) returns (an error stands for a
\* failure of the appraiser or the item's 30 s deadline); on success the
\* three appraisal fields of the repository are overwritten.
WorkerAppraise(w) ==
    /\ wk[w].pc = "appraise"
    /\ \E out \in AppraisalOuts("pool") \cup {AppraiseFail} :
          /\ pool' = [pool EXCEPT
                        !.appr[wk[w].job] = Append(@, out),
                        !.heap[wk[w].job] = Appraised(@, out)]
          /\ wk' = [wk EXCEPT ![w].pc = IF out.ok THEN "sendRes" ELSE "sendErr"]
    /\ UNCHANGED <<mineVars, rt, ft>>

\* errors <- fmt.Errorf(...)
WorkerSendErr(w) ==
    /\ wk[w].pc = "sendErr"
    /\ IF pool.closed
       THEN /\ pool' = [pool EXCEPT !.panic = TRUE]
            /\ wk' = [wk EXCEPT ![w].pc = "panicked"]
       ELSE /\ Len(pool.errors) < Cap
            /\ pool' = [pool EXCEPT !.errors = Append(@, wk[w].job)]
            /\ wk' = [wk EXCEPT ![w].pc = AfterSendErr]
    /\ UNCHANGED <<mineVars, rt, ft>>

\* results <- repo
WorkerSendRes(w) ==
    /\ wk[w].pc = "sendRes"
    /\ IF pool.closed
       THEN /\ pool' = [pool EXCEPT !.panic = TRUE]
            /\ wk' = [wk EXCEPT ![w].pc = "panicked"]
       ELSE /\ Len(pool.results) < Cap
            /\ pool' = [pool EXCEPT !.results = Append(@, wk[w].job)]
            /\ wk' = [wk EXCEPT ![w] = [pc |-> "recv", job |-> 0]]
    /\ UNCHANGED <<mineVars, rt, ft>>

InitPool ==
    /\ mode = "sequential"
    /\ notifierSet = TRUE
    /\ maxGoroutines = DefaultMaxGoroutines
    /\ store = [id \in IDs |-> Absent]
    /\ cyc = [s \in Slots |-> IdleCycle]
    /\ started = 0
    /\ pool = PoolIdle
    /\ wk = WorkersOff
    /\ rt = RetryIdle
    /\ ft = StageIdle

NextPool ==
    \/ PoolSetMax
    \/ PoolCall
    \/ PoolCancel
    \/ MainSend
    \/ MainClose
    \/ Waiter
    \/ SelectDone
    \/ SelectCtx
    \/ \E w \in Workers :
          \/ WorkerRecv(w)
          \/ WorkerAppraise(w)
          \/ WorkerSendErr(w)
          \/ WorkerSendRes(w)

SpecPool == InitPool /\ [][NextPool]_vars

\* The scheduler runs every goroutine that can take a step: the caller of
\* AnalyzeWithLLM, the goroutine that waits for the workers, and each
\* worker, whose appraiser call returns or runs into its 30 s deadline.
\* Nothing obliges the outer context to be cancelled.
FairPool ==
    /\ WF_vars(MainSend)
    /\ WF_vars(MainClose)
    /\ WF_vars(Waiter)
    /\ WF_vars(SelectDone \/ SelectCtx)
    /\ \A w \in Workers :
          /\ WF_vars(WorkerRecv(w))
          /\ WF_vars(WorkerAppraise(w))
          /\ WF_vars(WorkerSendErr(w))
          /\ WF_vars(WorkerSendRes(w))

SpecPoolFair == InitPool /\ [][NextPool]_vars /\ FairPool

----------------------------------------------------------------------------
(* common.Do: the retry executor *)

\* The options a caller passes, valid and invalid values alike.
OptionIn ==
    [name : {"WithMaxRetries"}, val : {-1, 0, 1, 2}]
    \cup [name : {"WithInitialDelay"}, val : {-1, 0, 2}]
    \cup [name : {"WithMaxDelay"}, val : {0, 3}]
    \cup [name : {"WithMultiplier"}, val : {0, 3, 100}]

OptionSeqs == UNION {[1..n -> OptionIn] : n \in 0..MaxOpts}

\* A slip: zero retries is taken for an invalid value.
WithMaxRetriesPositive(c, n) == IF n > 0 THEN [c EXCEPT !.maxRetries = n] ELSE c

WithMaxRetries(c, n) == IF n >= 0 THEN [c EXCEPT !.maxRetries = n] ELSE c

WithInitialDelay(c, d) == IF d > 0 THEN [c EXCEPT !.initialDelay = d] ELSE c

WithMaxDelay(c, d) == IF d > 0 THEN [c EXCEPT !.maxDelay = d] ELSE c

WithMultiplier(c, m) == IF m > 0 THEN [c EXCEPT !.multiplier = m] ELSE c

ApplyOption(c, opt) ==
    CASE opt.name = "WithMaxRetries" -> WithMaxRetries(c, opt.val)
      [] opt.name = "WithInitialDelay" -> WithInitialDelay(c, opt.val)
      [] opt.name = "WithMaxDelay" -> WithMaxDelay(c, opt.val)
      [] opt.name = "WithMultiplier" -> WithMultiplier(c, opt.val)

\* for _, opt := range opts { opt(cfg) }
RECURSIVE ApplyOptions(_, _)
ApplyOptions(c, opts) ==
    IF opts = <<>> THEN c
    ELSE ApplyOptions(ApplyOption(c, Head(opts)), Tail(opts))

RECURSIVE Pow(_, _)
Pow(b, e) == IF e = 0 THEN 1 ELSE b * Pow(b, e - 1)

MinDuration == -MaxDuration - 1

\* time.Duration(delay) of a float64: the value itself when it is in the
\* range of the type; outside it the result depends on the build, the
\* smallest duration on some and the largest on others.
ToDuration(delay) ==
    IF delay > MaxDuration THEN {MinDuration, MaxDuration} ELSE {delay}

\* A slip: the delay is not capped.
calculateDelayUncapped(attempt, initialDelay, maxDelay, multiplier) ==
    ToDuration(initialDelay * Pow(multiplier, attempt - 1))

\* The delays calculateDelay can return: one, unless the conversion is out
\* of range.
calculateDelay(attempt, initialDelay, maxDelay, multiplier) ==
    LET delay == initialDelay * Pow(multiplier, attempt - 1)
    IN {IF d > maxDelay THEN maxDelay ELSE d : d \in ToDuration(delay)}

\* What the k-th call of the retried operation returns: it succeeds on call
\* succeedAt and fails on every other call (on every call when succeedAt = 0).
FnResult(k, succeedAt) == IF k = succeedAt THEN NoErr ELSE Err(k)

Return(r, kind, n, max, cause) ==
    [r EXCEPT !.pc = "returned",
              !.ret = [kind |-> kind, n |-> n, max |-> max, cause |-> cause]]

\* A slip: the loop stops one retry early.
LoopContinuesStrict(attempt, maxRetries) == attempt < maxRetries

\* attempt <= cfg.maxRetries
LoopContinues(attempt, maxRetries) == attempt <= maxRetries

\* A slip: the result of a retried call is not looked at.
RetrySucceededNever(err) == FALSE

\* err == nil after a retried call
RetrySucceeded(err) == err = NoErr

\* A slip: the context is not looked at before sleeping.
CtxCheckedNever(done) == FALSE

\* select { case <-ctx.Done(): ...; default: } at the head of the loop
CtxChecked(done) == done

\* A slip: an abort wraps the last error of the operation.
AbortCauseLastErr(r) == r.lastErr

\* ctx.Err(), which both aborts wrap
AbortCause(r) == CtxErr

\* Do is called: nil check and configuration. The context may already be
\* cancelled.
RetryCall ==
    /\ rt.pc = "idle"
    /\ \E nilFn \in BOOLEAN, at \in 0..MaxSucceedAt, opts \in OptionSeqs,
          done \in BOOLEAN :
          /\ nilFn => (at = 0 /\ opts = <<>>)
          /\ LET r == [rt EXCEPT !.fnNil = nilFn, !.succeedAt = at,
                                 !.opts = opts, !.ctxDone = done]
             IN rt' = IF nilFn
                      THEN Return(r, "nilfn", 0, 0, NoErr)
                      ELSE [r EXCEPT !.pc = "first",
                                     !.cfg = ApplyOptions(defaultConfig, opts)]
    /\ UNCHANGED <<mineVars, poolVars, ft>>

\* The first attempt, made without looking at the context.
RetryFirst ==
    /\ rt.pc = "first"
    /\ LET err == FnResult(1, rt.succeedAt)
           r == [rt EXCEPT !.calls = 1]
       IN rt' = IF err = NoErr
                THEN Return(r, "nil", 0, 0, NoErr)
                ELSE [r EXCEPT !.lastErr = err, !.attempt = 1, !.pc = "loop"]
    /\ UNCHANGED <<mineVars, poolVars, ft>>

\* The head of the retry loop: the loop condition, the context check before
\* sleeping, and the timer for the backoff delay.
RetryLoop ==
    /\ rt.pc = "loop"
    /\ rt' = IF ~LoopContinues(rt.attempt, rt.cfg.maxRetries)
             THEN Return(rt, "failed", rt.cfg.maxRetries + 1, 0, rt.lastErr)
             ELSE IF CtxChecked(rt.ctxDone)
             THEN Return(rt, "aborted", rt.attempt, 0, AbortCause(rt))
             ELSE [rt EXCEPT !.pc = "timer", !.timerFired = FALSE]
    /\ UNCHANGED <<mineVars, poolVars, ft>>

\* The timer's delay elapses; a caller blocked in the select proceeds to the
\* next attempt.
RetryTimer ==
    /\ rt.pc \in {"timer", "select"}
    /\ ~rt.timerFired
    /\ \E d \in calculateDelay(rt.attempt, rt.cfg.initialDelay,
                               rt.cfg.maxDelay, rt.cfg.multiplier) :
          LET r == [rt EXCEPT !.timerFired = TRUE, !.delays = Append(@, d)]
          IN rt' = IF rt.pc = "select" THEN [r EXCEPT !.pc = "retry"] ELSE r
    /\ UNCHANGED <<mineVars, poolVars, ft>>

\* The caller's context is cancelled or times out; a caller blocked in the
\* select returns.
RetryCancel ==
    /\ rt.pc \in {"first", "loop", "timer", "select", "retry"}
    /\ ~rt.ctxDone
    /\ LET r == [rt EXCEPT !.ctxDone = TRUE]
       IN rt' = IF rt.pc = "select"
                THEN Return(r, "abortedBackoff", rt.attempt,
                            rt.cfg.maxRetries, AbortCause(rt))
                ELSE r
    /\ UNCHANGED <<mineVars, poolVars, ft>>

\* The caller reaches the select on ctx.Done() and timer.C: it takes a
\* ready case, either one when both are ready, and blocks when none is.
RetrySelect ==
    /\ rt.pc = "timer"
    /\ \/ /\ rt.ctxDone
          /\ rt' = Return(rt, "abortedBackoff", rt.attempt,
                          rt.cfg.maxRetries, AbortCause(rt))
       \/ /\ rt.timerFired
          /\ rt' = [rt EXCEPT !.pc = "retry"]
       \/ /\ ~rt.ctxDone /\ ~rt.timerFired
          /\ rt' = [rt EXCEPT !.pc = "select"]
    /\ UNCHANGED <<mineVars, poolVars, ft>>

\* A retried call of the operation, then attempt++.
RetryAttempt ==
    /\ rt.pc = "retry"
    /\ LET err == FnResult(rt.calls + 1, rt.succeedAt)
           r == [rt EXCEPT !.calls = @ + 1]
       IN rt' = IF RetrySucceeded(err)
                THEN Return(r, "nil", 0, 0, NoErr)
                ELSE [r EXCEPT !.lastErr = err, !.attempt = @ + 1,
                               !.pc = "loop"]
    /\ UNCHANGED <<mineVars, poolVars, ft>>

InitRetry ==
    /\ mode = "sequential"
    /\ notifierSet = TRUE
    /\ maxGoroutines = DefaultMaxGoroutines
    /\ store = [id \in IDs |-> Absent]
    /\ cyc = [s \in Slots |-> IdleCycle]
    /\ started = 0
    /\ pool = PoolIdle
    /\ wk = WorkersOff
    /\ rt = RetryIdle
    /\ ft = StageIdle

NextRetry ==
    \/ RetryCall
    \/ RetryFirst
    \/ RetryLoop
    \/ RetryTimer
    \/ RetryCancel
    \/ RetrySelect
    \/ RetryAttempt

SpecRetry == InitRetry /\ [][NextRetry]_vars

----------------------------------------------------------------------------
(* The filter and analyzer stages, one call at a time *)

\* Ages of the repositories handed to a stage, in hours: created in the
\* future, now, an hour and half a day ago, and around ten days ago.
AgesIn == {-24, 0, 1, 12, 239, 240, 241, 264}

\* Values of the maxDaysOld argument.
MaxDaysIn == {0, 1, 10}

\* Star counts.
StarsIn == {0, 100}

\* Lists of up to MaxStageRepos repositories with the given ages and stars.
StageLists(ages, stars) ==
    UNION {{[i \in 1..n |-> [NewRepo(RepoNames[i], a[i].age)
                              EXCEPT !.stars = a[i].stars]] :
              a \in [1..n -> [age : ages, stars : stars]]} :
           n \in 0..MaxStageRepos}

\* One call of FilterByCreatedAt with the clock injected.
StageFilterByCreatedAt ==
    /\ ft.op = "none"
    /\ \E repos \in StageLists(AgesIn, {100}), d \in MaxDaysIn :
          ft' = [op |-> "FilterByCreatedAt", in |-> repos, maxDaysOld |-> d,
                 out |-> FilterByCreatedAt(repos, d)]
    /\ UNCHANGED <<mineVars, poolVars, rt>>

\* One call of CalculateStarGrowthRate with the clock injected.
StageCalculateStarGrowthRate ==
    /\ ft.op = "none"
    /\ \E repos \in StageLists(AgesIn, StarsIn) :
          ft' = [op |-> "CalculateStarGrowthRate", in |-> repos,
                 out |-> CalculateStarGrowthRate(repos)]
    /\ UNCHANGED <<mineVars, poolVars, rt>>

\* File names are sequences of characters. UpperCase and LowerCase are
\* the letters strings.ToLower maps, position by position.
UpperCase ==
    <<"A", "B", "C", "D", "E", "F", "G", "H", "I", "J", "K", "L", "M",
      "N", "O", "P", "Q", "R", "S", "T", "U", "V", "W", "X", "Y", "Z">>

LowerCase ==
    <<"a", "b", "c", "d", "e", "f", "g", "h", "i", "j", "k", "l", "m",
      "n", "o", "p", "q", "r", "s", "t", "u", "v", "w", "x", "y", "z">>

ToLowerChar(c) ==
    IF \E i \in DOMAIN UpperCase : UpperCase[i] = c
    THEN LowerCase[CHOOSE i \in DOMAIN UpperCase : UpperCase[i] = c]
    ELSE c

\* strings.ToLower
ToLower(str) == [i \in DOMAIN str |-> ToLowerChar(str[i])]

\* strings.Split(str, sep) for a separator of one character: the pieces
\* between the separators, one empty piece for the empty string.
RECURSIVE Split(_, _)
Split(str, sep) ==
    IF \A i \in DOMAIN str : str[i] # sep
    THEN <<str>>
    ELSE LET k == CHOOSE i \in DOMAIN str :
                      str[i] = sep /\ \A j \in 1..(i - 1) : str[j] # sep
         IN <<SubSeq(str, 1, k - 1)>>
            \o Split(SubSeq(str, k + 1, Len(str)), sep)

\* readme, readme.md, readme.txt, readme.rst, readme.markdown,
\* readme.mdown, readme.mkdn
readmePatterns ==
    <<<<"r", "e", "a", "d", "m", "e">>,
      <<"r", "e", "a", "d", "m", "e", ".", "m", "d">>,
      <<"r", "e", "a", "d", "m", "e", ".", "t", "x", "t">>,
      <<"r", "e", "a", "d", "m", "e", ".", "r", "s", "t">>,
      <<"r", "e", "a", "d", "m", "e", ".", "m", "a", "r", "k", "d",
        "o", "w", "n">>,
      <<"r", "e", "a", "d", "m", "e", ".", "m", "d", "o", "w", "n">>,
      <<"r", "e", "a", "d", "m", "e", ".", "m", "k", "d", "n">>>>

\* A slip: the first path segment is looked at.
FirstPart(parts) == parts[1]

\* parts[len(parts)-1]
LastPart(parts) == parts[Len(parts)]

isReadmeFile(filename) ==
    LET lower == ToLower(filename)
        parts == Split(lower, "/")
    IN IF \E p \in DOMAIN readmePatterns : lower = readmePatterns[p]
       THEN TRUE
       ELSE IF Len(parts) > 0
       THEN \E p \in DOMAIN readmePatterns :
               LastPart(parts) = readmePatterns[p]
       ELSE FALSE

\* The file names isReadmeFile is called with:
\* README.md, readme, docs/README.md, examples/readme.txt,
\* readme_generator.go, CHANGELOG.md, LICENSE, pkg/service/handler.go,
\* ReadMe.MD, README.md/, readme.mdx, xreadme, (the empty name), /readme,
\* README.MKDN, docs/readme.rst, a/README.markdown, readme.mdown,
\* readme/main.go
FileNames ==
    {<<"R", "E", "A", "D", "M", "E", ".", "m", "d">>,
     <<"r", "e", "a", "d", "m", "e">>,
     <<"d", "o", "c", "s", "/", "R", "E", "A", "D", "M", "E", ".",
       "m", "d">>,
     <<"e", "x", "a", "m", "p", "l", "e", "s", "/", "r", "e", "a",
       "d", "m", "e", ".", "t", "x", "t">>,
     <<"r", "e", "a", "d", "m", "e", "_", "g", "e", "n", "e", "r",
       "a", "t", "o", "r", ".", "g", "o">>,
     <<"C", "H", "A", "N", "G", "E", "L", "O", "G", ".", "m", "d">>,
     <<"L", "I", "C", "E", "N", "S", "E">>,
     <<"p", "k", "g", "/", "s", "e", "r", "v", "i", "c", "e", "/",
       "h", "a", "n", "d", "l", "e", "r", ".", "g", "o">>,
     <<"R", "e", "a", "d", "M", "e", ".", "M", "D">>,
     <<"R", "E", "A", "D", "M", "E", ".", "m", "d", "/">>,
     <<"r", "e", "a", "d", "m", "e", ".", "m", "d", "x">>,
     <<"x", "r", "e", "a", "d", "m", "e">>,
     <<>>,
     <<"/", "r", "e", "a", "d", "m", "e">>,
     <<"R", "E", "A", "D", "M", "E", ".", "M", "K", "D", "N">>,
     <<"d", "o", "c", "s", "/", "r", "e", "a", "d", "m", "e", ".",
       "r", "s", "t">>,
     <<"a", "/", "R", "E", "A", "D", "M", "E", ".", "m", "a", "r",
       "k", "d", "o", "w", "n">>,
     <<"r", "e", "a", "d", "m", "e", ".", "m", "d", "o", "w", "n">>,
     <<"r", "e", "a", "d", "m", "e", "/", "m", "a", "i", "n", ".",
       "g", "o">>}

\* One call of isReadmeFile.
StageIsReadmeFile ==
    /\ ft.op = "none"
    /\ \E name \in FileNames :
          ft' = [op |-> "isReadmeFile", in |-> name, out |-> isReadmeFile(name)]
    /\ UNCHANGED <<mineVars, poolVars, rt>>

\* hasNonReadmeCommit's constants
maxCommitsToCheck == 10

minCommitsThreshold == 2

\* A file of a commit whose Filename is nil.
NilFilename == <<"nil">>

\* What fetching a commit's detail ends in once the retry policy has run:
\* a failure, or the files of the commit.
DetailFail == [ok |-> FALSE, files |-> <<>>]

Detail(files) == [ok |-> TRUE, files |-> files]

\* A commit that touches README.md only.
ReadmeCommit == Detail(<<<<"R", "E", "A", "D", "M", "E", ".", "m", "d">>>>)

\* A commit that touches README.md and pkg/service/handler.go.
CodeCommit ==
    Detail(<<<<"R", "E", "A", "D", "M", "E", ".", "m", "d">>,
             <<"p", "k", "g", "/", "s", "e", "r", "v", "i", "c", "e", "/",
               "h", "a", "n", "d", "l", "e", "r", ".", "g", "o">>>>)

CommitDetails ==
    {DetailFail, Detail(<<>>), ReadmeCommit, CodeCommit,
     Detail(<<<<"d", "o", "c", "s", "/", "R", "E", "A", "D", "M", "E", ".",
                "m", "d">>,
              <<"R", "E", "A", "D", "M", "E", ".", "m", "d">>>>),
     Detail(<<NilFilename>>)}

\* k commits that touch README.md only.
Readmes(k) == [i \in 1..k |-> ReadmeCommit]

\* The commits of a repository, most recent first: every history of up to
\* two commits, and histories around the number of commits inspected, with
\* a code commit as the last inspected one, just behind it, or nowhere.
Histories ==
    UNION {[1..n -> CommitDetails] : n \in 0..2}
    \cup {Readmes(maxCommitsToCheck - 1) \o <<CodeCommit>>,
          Readmes(maxCommitsToCheck) \o <<CodeCommit>>,
          Readmes(maxCommitsToCheck + 1)}

\* What GitHub holds for one repository: whether its URL is a github.com
\* URL with an owner and a name ("ok"), of another host ("host"), too
\* short ("path") or not a URL ("parse"); whether ListCommits succeeds;
\* its commits.
RepoWorlds ==
    [url : {"ok"}, listOk : {TRUE}, history : Histories]
    \cup [url : {"ok"}, listOk : {FALSE}, history : {<<>>}]
    \cup [url : {"host", "path", "parse"}, listOk : {TRUE}, history : {<<>>}]

\* Repositories.ListCommits with PerPage: maxCommitsToCheck
ListCommits(history) ==
    SubSeq(history, 1, IF Len(history) < maxCommitsToCheck
                       THEN Len(history) ELSE maxCommitsToCheck)

\* A slip: a commit without file information counts as a <<"R", "E", "A", "D", "M", "E", ".", "m", "d">> commit.
NoFilesIsReadme == FALSE

\* commit == nil || len(commit.Files) == 0: return true, nil
NoFilesIsReal == TRUE

commitHasNonReadmeChanges(detail) ==
    IF ~detail.ok
    THEN [val |-> FALSE, err |-> TRUE]
    ELSE IF Len(detail.files) = 0
    THEN [val |-> NoFilesIsReal, err |-> FALSE]
    ELSE [val |-> \E i \in DOMAIN detail.files :
                     /\ detail.files[i] # NilFilename
                     /\ ~isReadmeFile(detail.files[i]),
          err |-> FALSE]

\* Either loop of hasNonReadmeCommit over the listed commits: a commit whose
\* detail cannot be fetched is passed over, the first commit with a change
\* outside the <<"R", "E", "A", "D", "M", "E", ".", "m", "d">>s ends the loop. calls counts the fetches made.
ScanCommits(commits) ==
    LET real == {i \in DOMAIN commits :
                    LET r == commitHasNonReadmeChanges(commits[i])
                    IN ~r.err /\ r.val}
    IN IF real = {}
       THEN [val |-> FALSE, err |-> FALSE, calls |-> 1 + Len(commits)]
       ELSE [val |-> TRUE, err |-> FALSE,
             calls |-> 1 + (CHOOSE i \in real : \A j \in real : i <= j)]

hasNonReadmeCommit(w) ==
    IF ~w.listOk
    THEN [val |-> FALSE, err |-> TRUE, calls |-> 1]
    ELSE LET commits == ListCommits(w.history)
         IN IF Len(commits) = 0
            THEN [val |-> FALSE, err |-> FALSE, calls |-> 1]
            ELSE IF Len(commits) < minCommitsThreshold
            THEN ScanCommits(commits)
            ELSE ScanCommits(commits)

\* Whether the loop of FilterByRecentCommit appends the repository.
KeepsRepo(w) ==
    IF w.url # "ok"
    THEN TRUE
    ELSE LET h == hasNonReadmeCommit(w) IN h.err \/ h.val

CallsFor(w) == IF w.url # "ok" THEN 0 ELSE hasNonReadmeCommit(w).calls

RECURSIVE SumCalls(_)
SumCalls(world) ==
    IF world = <<>> THEN 0 ELSE CallsFor(Head(world)) + SumCalls(Tail(world))

\* A slip: without a client nothing is returned.
NilClientResultEmpty(repos) == <<>>

\* cloned: a copy of the input list
NilClientResult(repos) == repos

\* FilterByRecentCommit: the list returned, whether it is a nil slice, the
\* error, and the number of calls made to GitHub.
FilterByRecentCommit(clientNil, repos, world) ==
    IF clientNil
    THEN [list |-> NilClientResult(repos), isNil |-> FALSE, err |-> "nil",
          calls |-> 0]
    ELSE LET kept == {i \in DOMAIN repos : KeepsRepo(world[i])}
             Nth(k) == CHOOSE i \in kept :
                          Cardinality({j \in kept : j < i}) = k - 1
             filtered == [k \in 1..Cardinality(kept) |-> repos[Nth(k)]]
         IN [list |-> filtered,
             isNil |-> IF Len(filtered) = 0 THEN FALSE ELSE kept = {},
             err |-> "nil", calls |-> SumCalls(world)]

\* One call of FilterByRecentCommit, with or without a client.
StageFilterByRecentCommit ==
    /\ ft.op = "none"
    /\ \E clientNil \in BOOLEAN, n \in 0..MaxCommitRepos :
          \E world \in [1..n -> RepoWorlds] :
             /\ clientNil
                => \A i \in 1..n :
                      world[i] = [url |-> "ok", listOk |-> TRUE,
                                  history |-> <<ReadmeCommit>>]
             /\ LET repos == [i \in 1..n |-> NewRepo(RepoNames[i], Days(3))]
                IN ft' = [op |-> "FilterByRecentCommit",
                          clientNil |-> clientNil, in |-> repos,
                          world |-> world,
                          out |-> FilterByRecentCommit(clientNil, repos,
                                                       world)]
    /\ UNCHANGED <<mineVars, poolVars, rt>>

InitFilter ==
    /\ mode = "sequential"
    /\ notifierSet = TRUE
    /\ maxGoroutines = DefaultMaxGoroutines
    /\ store = [id \in IDs |-> Absent]
    /\ cyc = [s \in Slots |-> IdleCycle]
    /\ started = 0
    /\ pool = PoolIdle
    /\ wk = WorkersOff
    /\ rt = RetryIdle
    /\ ft = StageIdle

NextFilter ==
    \/ StageFilterByCreatedAt
    \/ StageCalculateStarGrowthRate
    \/ StageIsReadmeFile
    \/ StageFilterByRecentCommit

SpecFilter == InitFilter /\ [][NextFilter]_vars

----------------------------------------------------------------------------
(* Properties of the mining cycle *)

StoreOps == {"Save", "Notify", "Mark"}

LogOf(s) == cyc[s].log

\* Position k of the call log of slot s holds a failed call of op.
FailedCall(s, op) ==
    \E k \in DOMAIN LogOf(s) : LogOf(s)[k].op = op /\ ~LogOf(s)[k].ok

\* C1: a call of ExecuteMiningCycle that has returned has returned nil,
\* whatever the fetches, the activity filter, the worker pool and the store
\* and notifier calls reported, and whether or not the context was cancelled.
C1_AlwaysNil ==
    \A s \in Slots : cyc[s].pc = "done" => cyc[s].ret = "nil"

\* A cycle has returned in which the trending fetch, a topic fetch, the
\* activity filter and the pool all reported errors and a Save failed.
C1_Witness ==
    \E s \in Slots :
        /\ cyc[s].pc = "done"
        /\ cyc[s].ret = "nil"
        /\ cyc[s].errs = {"trending", "topic", "activity", "llm"}
        /\ FailedCall(s, "Save")

\* C2: in the persist stage a collaborator call is made for a repository
\* only if it is flagged and its score is at least 50, and every flagged
\* repository with a score of at least 50 whose iteration has run has had
\* its Exists call.
C2_QualificationGate ==
    \A s \in Slots :
        /\ \A k \in DOMAIN LogOf(s) :
              LET r == cyc[s].repos[LogOf(s)[k].i]
              IN r.flag /\ r.score >= 50
        /\ \A i \in DOMAIN cyc[s].repos :
              (i < cyc[s].idx /\ cyc[s].repos[i].flag
                 /\ cyc[s].repos[i].score >= 50)
              => \E k \in DOMAIN LogOf(s) :
                    LogOf(s)[k].op = "Exists" /\ LogOf(s)[k].i = i

\* A cycle has passed over a flagged repository with score 49 without any
\* call and has saved and notified a flagged repository with score exactly 50.
C2_Witness ==
    \E s \in Slots :
        \E i, j \in DOMAIN cyc[s].repos :
            /\ cyc[s].pc = "done"
            /\ cyc[s].repos[i].flag /\ cyc[s].repos[i].score = 49
            /\ \A k \in DOMAIN LogOf(s) : LogOf(s)[k].i # i
            /\ cyc[s].repos[j].flag /\ cyc[s].repos[j].score = 50
            /\ \E k \in DOMAIN LogOf(s) :
                  LogOf(s)[k] = Call("Notify", j, cyc[s].repos[j].id, TRUE, FALSE)

\* C3: once Exists has reported a repository as present, the cycle makes no
\* Save, Notify or MarkAsNotified call for it (neither for that entry of the
\* analyzed set nor, later, for its identifier), and the cycle still returns
\* nil.
C3_PresentIsSkipped ==
    \A s \in Slots :
        \A k \in DOMAIN LogOf(s) :
            (LogOf(s)[k].op = "Exists" /\ LogOf(s)[k].ok /\ LogOf(s)[k].present)
            => /\ \A j \in DOMAIN LogOf(s) :
                     LogOf(s)[j].op \in StoreOps
                     => /\ LogOf(s)[j].i # LogOf(s)[k].i
                        /\ j > k => LogOf(s)[j].id # LogOf(s)[k].id
               /\ cyc[s].pc = "done" => cyc[s].ret = "nil"

\* A cycle has returned after Exists reported one of its repositories as
\* present, and it went on to save another repository after that.
C3_Witness ==
    \E s \in Slots :
        \E k, j \in DOMAIN LogOf(s) :
            /\ cyc[s].pc = "done"
            /\ LogOf(s)[k].op = "Exists" /\ LogOf(s)[k].ok /\ LogOf(s)[k].present
            /\ j > k
            /\ LogOf(s)[j].op = "Save" /\ LogOf(s)[j].ok

\* The steps in which the notified flag of a stored row is allowed to
\* change: never from true to false (so it turns true at most once), and
\* from false to true only by the MarkAsNotified call of a cycle that has
\* saved and then notified that repository in the same iteration.
C4_FlagStep ==
    \A id \in IDs :
        /\ store[id].notified => store'[id].present /\ store'[id].notified
        /\ (~store[id].notified /\ store'[id].notified)
           => \E s \in Slots :
                 /\ cyc[s].pc = "mark"
                 /\ Cur(s).id = id
                 /\ \E k \in DOMAIN LogOf(s) :
                       /\ k < Len(LogOf(s))
                       /\ LogOf(s)[k] = Call("Save", cyc[s].idx, id, TRUE, FALSE)
                       /\ LogOf(s)[k + 1] = Call("Notify", cyc[s].idx, id, TRUE, FALSE)

\* C4 as claimed: the notified flag only goes from false to true, at most
\* once, and only after a successful Save and Notify, whether the cycles run
\* one after another or overlap.
C4_Original == [][C4_FlagStep]_vars

\* C4 as amended: the same, for cycles that run one after another.
C4_FlagMonotoneSequential == [][mode = "sequential" => C4_FlagStep]_vars

\* In a sequential run a row has been marked as notified.
C4_Witness ==
    /\ mode = "sequential"
    /\ \E id \in IDs : store[id].notified

\* C5: with cycles that run one after another, a cycle makes no Save, Notify
\* or MarkAsNotified call for an identifier that was saved before the cycle
\* began.
C5_NoRepeatAfterSave ==
    mode = "sequential"
    => \A s \in Slots :
          \A k \in DOMAIN LogOf(s) :
              LogOf(s)[k].op \in StoreOps => LogOf(s)[k].id \notin cyc[s].prior

\* A later cycle has met, qualifying again, a repository that an earlier
\* cycle saved and whose notification did not go through (its row is still
\* unnotified), found it present, and returned without notifying it.
C5_Witness ==
    /\ mode = "sequential"
    /\ notifierSet
    /\ \E s \in Slots :
          \E k \in DOMAIN LogOf(s) :
              /\ cyc[s].pc = "done"
              /\ LogOf(s)[k].op = "Exists" /\ LogOf(s)[k].present
              /\ LogOf(s)[k].id \in cyc[s].prior
              /\ ~store[LogOf(s)[k].id].notified

----------------------------------------------------------------------------
(* Properties of the worker pool *)

\* list holds each of the positions 1..n exactly once.
IsPermutation(list, n) ==
    /\ Len(list) = n
    /\ \A i \in 1..n : Cardinality({k \in DOMAIN list : list[k] = i}) = 1

PoolReturned == pool.pc = "returned"

\* C6: when the outer context is not cancelled, AnalyzeWithLLM returns no
\* error and a list holding every input repository exactly once, for every
\* number of workers and every completion order.
C6_ResultIsPermutation ==
    (PoolReturned /\ ~pool.ctxDone)
    => /\ pool.ret.err = "nil"
       /\ IsPermutation(pool.ret.list, Len(pool.input))

\* Two workers have handled three repositories and the call has returned
\* them in an order that is not the input order.
C6_Witness ==
    /\ PoolReturned /\ ~pool.ctxDone
    /\ maxGoroutines = 2
    /\ Len(pool.input) = 3
    /\ pool.ret.list # <<1, 2, 3>>

\* C7: when the outer context is not cancelled the call returns no error
\* and every input repository; a repository whose appraisal failed has all
\* its fields as they were on input, and one whose appraisal succeeded has
\* the flag, score and review of its appraisal.
C7_FailureIsPerItem ==
    (PoolReturned /\ ~pool.ctxDone)
    => /\ pool.ret.err = "nil"
       /\ \A i \in DOMAIN pool.input :
             /\ \E k \in DOMAIN pool.ret.list : pool.ret.list[k] = i
             /\ Len(pool.appr[i]) = 1
             /\ LET out == pool.appr[i][1]
                IN IF out.ok
                   THEN pool.heap[i] =
                          [pool.input[i] EXCEPT !.flag = out.flag,
                                                !.score = out.score,
                                                !.review = out.review]
                   ELSE pool.heap[i] = pool.input[i]

\* Of three repositories the appraisal of the second, which came in with a
\* flag, a score of 70 and a review, has failed and the other two have been
\* appraised; the call has returned without error.
C7_Witness ==
    /\ PoolReturned /\ ~pool.ctxDone
    /\ pool.ret.err = "nil"
    /\ Len(pool.input) = 3
    /\ \A i \in {1, 2, 3} : Len(pool.appr[i]) = 1
    /\ pool.appr[1][1].ok /\ ~pool.appr[2][1].ok /\ pool.appr[3][1].ok
    /\ pool.heap[2].score = 70 /\ pool.heap[1].score = 50

----------------------------------------------------------------------------
(* Properties of the retry executor *)

RetryReturned == rt.pc = "returned"

\* C9: with an operation that always fails, maxRetries = R >= 0 and a
\* context that is never cancelled, Do calls the operation exactly R+1
\* times and returns a failure that wraps the error of the last call and
\* names R+1 attempts; in no execution is the operation called more than
\* maxRetries+1 times.
C9_ExhaustsAfterRPlusOne ==
    /\ rt.calls <= rt.cfg.maxRetries + 1
    /\ (RetryReturned /\ ~rt.fnNil /\ rt.succeedAt = 0 /\ ~rt.ctxDone)
       => /\ rt.cfg.maxRetries >= 0
          /\ rt.calls = rt.cfg.maxRetries + 1
          /\ rt.ret.kind = "failed"
          /\ rt.ret.n = rt.cfg.maxRetries + 1
          /\ rt.ret.cause = Err(rt.calls)

\* An always-failing operation was given two retries by an option, the
\* context was not cancelled, and Do has returned after the third call
\* with the third call's error.
C9_Witness ==
    /\ RetryReturned /\ ~rt.fnNil /\ rt.succeedAt = 0 /\ ~rt.ctxDone
    /\ rt.opts = <<[name |-> "WithMaxRetries", val |-> 2]>>
    /\ rt.calls = 3
    /\ rt.ret = [kind |-> "failed", n |-> 3, max |-> 0, cause |-> Err(3)]

\* C10: with an operation that fails on its first N-1 calls and succeeds
\* on the N-th, maxRetries >= N-1 and a context that is never cancelled, Do
\* returns success after exactly N calls; and the operation is never called
\* again after a call that succeeded.
C10_StopsAtFirstSuccess ==
    /\ (~rt.fnNil /\ rt.succeedAt >= 1) => rt.calls <= rt.succeedAt
    /\ (RetryReturned /\ ~rt.fnNil /\ rt.succeedAt >= 1 /\ ~rt.ctxDone
          /\ rt.cfg.maxRetries >= rt.succeedAt - 1)
       => /\ rt.ret.kind = "nil"
          /\ rt.calls = rt.succeedAt

\* The operation failed twice and succeeded on its third call, under the
\* default three retries and a context that was not cancelled; Do has
\* returned success.
C10_Witness ==
    /\ RetryReturned /\ ~rt.fnNil /\ ~rt.ctxDone
    /\ rt.succeedAt = 3
    /\ rt.cfg.maxRetries = 3
    /\ rt.calls = 3
    /\ rt.ret.kind = "nil"
    /\ Len(rt.delays) = 2

AbortKinds == {"aborted", "abortedBackoff"}

\* The step returns an abort of the given kind that wraps the context's
\* error, and calls the operation no more.
AbortsWith(kind) ==
    /\ rt'.pc = "returned"
    /\ rt'.ret.kind = kind
    /\ rt'.ret.cause = CtxErr
    /\ rt'.calls = rt.calls

\* C11 as claimed: once the caller's cancellation signal has fired, no
\* attempt of the call starts, the first one included.
C11_Original == [][rt'.calls # rt.calls => ~rt.ctxDone]_vars

C11_Step ==
    /\ (rt.pc = "loop" /\ rt.ctxDone /\ rt.attempt <= rt.cfg.maxRetries)
       => AbortsWith("aborted")
    /\ (rt.pc = "select" /\ ~rt.ctxDone /\ rt'.ctxDone)
       => AbortsWith("abortedBackoff")
    /\ (rt.pc = "timer" /\ rt.ctxDone /\ ~rt.timerFired /\ rt'.pc # "timer")
       => AbortsWith("abortedBackoff")
    /\ rt'.ret.kind \in AbortKinds => rt'.ctxDone
    /\ rt'.ret.kind = "failed" => rt'.ret.cause # CtxErr

\* C11 as amended: the first attempt is made without looking at the
\* cancellation signal. If the signal has fired when a retry is about to
\* begin its backoff, or fires while Do waits in a backoff whose delay has
\* not elapsed, Do returns at once without calling the operation again, and
\* what it returns is a cancellation failure that wraps the context's error
\* and is never the exhausted-retries failure.
C11_CancelStopsRetries == [][C11_Step]_vars

\* Do was cancelled while it waited for its second retry: it has returned
\* a cancellation failure after two calls, with three retries allowed.
C11_Witness ==
    /\ RetryReturned
    /\ rt.ctxDone
    /\ rt.ret.kind = "abortedBackoff" /\ rt.ret.cause = CtxErr
    /\ rt.attempt = 2 /\ rt.calls = 2
    /\ rt.cfg.maxRetries = 3
    /\ Len(rt.delays) = 1

C12_Step ==
    /\ (rt.pc = "select" /\ rt.attempt = 1 /\ ~rt.ctxDone /\ rt'.ctxDone
          /\ rt.succeedAt = 0 /\ rt.cfg.maxRetries >= 1)
       => /\ rt'.pc = "returned"
          /\ rt'.ret.kind \in AbortKinds
          /\ rt'.ret.cause = CtxErr
          /\ rt'.calls < rt'.cfg.maxRetries + 1
    /\ rt'.ret.kind = "failed"
       => /\ rt'.calls = rt'.cfg.maxRetries + 1
          /\ rt'.succeedAt \notin 1..rt'.calls
          /\ rt'.ret.cause = Err(rt'.calls)

\* C12: with an always-failing operation and maxRetries >= 1, a
\* cancellation that arrives while Do waits in the backoff before the
\* second attempt makes Do return a failure that wraps the context's error,
\* after fewer than maxRetries+1 calls; and the exhausted-retries failure is
\* returned only after exactly maxRetries+1 calls, all of which failed.
C12_CancelInFirstBackoff == [][C12_Step]_vars

\* An always-failing operation with at least one retry allowed was called
\* once, and Do, cancelled in the wait before the second attempt, has
\* returned the cancellation failure.
C12_Witness ==
    /\ RetryReturned
    /\ rt.succeedAt = 0 /\ ~rt.fnNil
    /\ rt.cfg.maxRetries >= 1
    /\ rt.ret.kind = "abortedBackoff" /\ rt.ret.cause = CtxErr
    /\ rt.ret.n = 1 /\ rt.calls = 1
    /\ rt.delays = <<>>

\* The values an option accepts, as its documentation gives them: a retry
\* count of zero or more, a positive delay, cap or multiplier.
ValidOption(opt) ==
    IF opt.name = "WithMaxRetries" THEN opt.val >= 0 ELSE opt.val > 0

\* The setting an option is about, and its default.
SettingOf(c, name) ==
    CASE name = "WithMaxRetries" -> c.maxRetries
      [] name = "WithInitialDelay" -> c.initialDelay
      [] name = "WithMaxDelay" -> c.maxDelay
      [] name = "WithMultiplier" -> c.multiplier

OptionNames ==
    {"WithMaxRetries", "WithInitialDelay", "WithMaxDelay", "WithMultiplier"}

\* Positions of opts that hold a valid option of the given name.
ValidAt(opts, name) ==
    {i \in DOMAIN opts : opts[i].name = name /\ ValidOption(opts[i])}

LastOf(S) == CHOOSE i \in S : \A j \in S : j <= i

RetryConfigured == rt.pc \notin {"idle"} /\ ~rt.fnNil

ZeroRetriesOneCall ==
    (RetryReturned /\ ~rt.fnNil /\ rt.cfg.maxRetries = 0) => rt.calls = 1

\* C13 as claimed: for any sequence of options, a setting for which an
\* invalid option was passed is the default; zero retries is valid and
\* gives exactly one call.
C13_Original ==
    /\ RetryConfigured
       => \A i \in DOMAIN rt.opts :
             ~ValidOption(rt.opts[i])
             => SettingOf(rt.cfg, rt.opts[i].name)
                = SettingOf(defaultConfig, rt.opts[i].name)
    /\ ZeroRetriesOneCall

\* C13 as amended: an option with an invalid value changes nothing, so
\* each setting is the value of the last valid option passed for it, and
\* the default when no valid option was passed for it; zero retries is
\* valid and gives exactly one call of the operation.
C13_InvalidOptionsIgnored ==
    /\ RetryConfigured
       => \A name \in OptionNames :
             SettingOf(rt.cfg, name)
             = IF ValidAt(rt.opts, name) = {}
               THEN SettingOf(defaultConfig, name)
               ELSE rt.opts[LastOf(ValidAt(rt.opts, name))].val
    /\ ZeroRetriesOneCall

\* Do was given zero retries and then an invalid retry count: the count has
\* stayed zero and Do has returned after one failed call.
C13_Witness ==
    /\ RetryReturned
    /\ rt.opts = <<[name |-> "WithMaxRetries", val |-> 0],
                   [name |-> "WithMaxRetries", val |-> -1]>>
    /\ rt.cfg.maxRetries = 0
    /\ rt.calls = 1
    /\ rt.ret.kind = "failed" /\ rt.ret.n = 1

Min(a, b) == IF a < b THEN a ELSE b

\* initialDelay * multiplier^e under the configuration of the call
Backoff(e) == rt.cfg.initialDelay * Pow(rt.cfg.multiplier, e)

\* Every call after the first has been preceded by a wait, the first by
\* none.
WaitBeforeEachRetry ==
    /\ rt.calls <= Len(rt.delays) + 1
    /\ rt.pc = "first" => rt.delays = <<>>

\* C14 as claimed: the first call is made without delay and call a >= 2
\* is preceded by a wait of min(initialDelay * multiplier^(a-1), maxDelay);
\* no wait exceeds maxDelay. rt.delays[k] is the wait before call k+1.
C14_Original ==
    /\ WaitBeforeEachRetry
    /\ \A k \in DOMAIN rt.delays :
          /\ rt.delays[k] = Min(Backoff(k), rt.cfg.maxDelay)
          /\ rt.delays[k] <= rt.cfg.maxDelay

\* C14 as amended: the first call is made without delay and call a >= 2
\* is preceded by a wait of min(initialDelay * multiplier^(a-2), maxDelay)
\* whenever initialDelay * multiplier^(a-2) is in the range of a duration;
\* when it is not, the wait is maxDelay or the smallest duration, which
\* is no wait at all. No wait exceeds maxDelay.
C14_BackoffDelays ==
    /\ WaitBeforeEachRetry
    /\ \A k \in DOMAIN rt.delays :
          /\ Backoff(k - 1) <= MaxDuration
             => rt.delays[k] = Min(Backoff(k - 1), rt.cfg.maxDelay)
          /\ Backoff(k - 1) > MaxDuration
             => rt.delays[k] \in {rt.cfg.maxDelay, MinDuration}
          /\ rt.delays[k] <= rt.cfg.maxDelay

\* With an initial delay of 2 and a cap of 3 the operation has failed four
\* times; the waits before the second, third and fourth call were 2, 3
\* and 3.
C14_Witness ==
    /\ RetryReturned
    /\ rt.cfg = [maxRetries |-> 3, initialDelay |-> 2, maxDelay |-> 3,
                 multiplier |-> 2]
    /\ rt.calls = 4
    /\ rt.delays = <<2, 3, 3>>

----------------------------------------------------------------------------
(* Properties of the filter and analyzer stages *)

\* Positions of the input of FilterByCreatedAt whose age is at most
\* maxDaysOld days.
YoungEnough ==
    {i \in DOMAIN ft.in : ft.in[i].age <= Days(ft.maxDaysOld)}

\* C15: FilterByCreatedAt keeps exactly the input repositories whose age
\* is at most maxDaysOld days, the one created exactly maxDaysOld days ago
\* included; the kept ones are the input records themselves, in input
\* order.
C15_KeepsYoungInOrder ==
    ft.op = "FilterByCreatedAt"
    => /\ Len(ft.out) = Cardinality(YoungEnough)
       /\ \A k \in DOMAIN ft.out :
             \E i \in YoungEnough :
                /\ ft.out[k] = ft.in[i]
                /\ Cardinality({j \in YoungEnough : j < i}) = k - 1

\* With maxDaysOld = 10, of three repositories aged ten days and an hour,
\* exactly ten days, and eleven days, only the second has been kept.
C15_Witness ==
    /\ ft.op = "FilterByCreatedAt"
    /\ ft.maxDaysOld = 10
    /\ Len(ft.in) = 3
    /\ ft.in[1].age = 241 /\ ft.in[2].age = Days(10) /\ ft.in[3].age = Days(11)
    /\ ft.out = <<ft.in[2]>>

\* C16: after CalculateStarGrowthRate every repository's rate is >= 0 and
\* its denominator is not zero; the rate is exactly 0 when the age is <= 0
\* and otherwise stars divided by the age in days; nothing else changes.
C16_GrowthRate ==
    ft.op = "CalculateStarGrowthRate"
    => /\ Len(ft.out) = Len(ft.in)
       /\ \A i \in DOMAIN ft.in :
             LET r == ft.out[i].rate
                 age == ft.in[i].age
             IN /\ r[2] > 0
                /\ r[1] >= 0
                /\ age <= 0 => r[1] = 0
                /\ age > 0 => r[1] * age = ft.in[i].stars * HoursPerDay * r[2]
                /\ ft.out[i] = [ft.in[i] EXCEPT !.rate = r]

\* A repository created now has rate 0 and one with 100 stars created
\* half a day ago has rate 200 a day.
C16_Witness ==
    /\ ft.op = "CalculateStarGrowthRate"
    /\ Len(ft.in) = 2
    /\ ft.in[1].age = 0 /\ ft.in[1].stars = 100
    /\ ft.out[1].rate = <<0, 1>>
    /\ ft.in[2].age = 12 /\ ft.in[2].stars = 100
    /\ ft.out[2].rate[1] = 200 * ft.out[2].rate[2]

\* The part of a file name after its last "/".
LastSegment(name) ==
    LET slashes == {i \in DOMAIN name : name[i] = "/"}
        from == IF slashes = {} THEN 1
                ELSE (CHOOSE i \in slashes : \A j \in slashes : j <= i) + 1
    IN SubSeq(name, from, Len(name))

\* a and b are equal but for the case of their letters.
EqualFold(a, b) ==
    /\ Len(a) = Len(b)
    /\ \A i \in DOMAIN a : ToLowerChar(a[i]) = ToLowerChar(b[i])

\* README.md, readme, docs/README.md, examples/readme.txt
ReadmeExamples ==
    {<<"R", "E", "A", "D", "M", "E", ".", "m", "d">>,
     <<"r", "e", "a", "d", "m", "e">>,
     <<"d", "o", "c", "s", "/", "R", "E", "A", "D", "M", "E", ".",
       "m", "d">>,
     <<"e", "x", "a", "m", "p", "l", "e", "s", "/", "r", "e", "a",
       "d", "m", "e", ".", "t", "x", "t">>}

\* readme_generator.go, CHANGELOG.md, LICENSE, pkg/service/handler.go
OtherExamples ==
    {<<"r", "e", "a", "d", "m", "e", "_", "g", "e", "n", "e", "r",
       "a", "t", "o", "r", ".", "g", "o">>,
     <<"C", "H", "A", "N", "G", "E", "L", "O", "G", ".", "m", "d">>,
     <<"L", "I", "C", "E", "N", "S", "E">>,
     <<"p", "k", "g", "/", "s", "e", "r", "v", "i", "c", "e", "/",
       "h", "a", "n", "d", "l", "e", "r", ".", "g", "o">>}

\* C17: isReadmeFile is true exactly when the last path segment of the
\* name is, but for case, one of readme, readme.md, readme.txt,
\* readme.rst, readme.markdown, readme.mdown, readme.mkdn: true for
\* README.md, readme, docs/README.md and examples/readme.txt, false for
\* readme_generator.go, CHANGELOG.md, LICENSE and pkg/service/handler.go.
C17_ReadmeByLastSegment ==
    ft.op = "isReadmeFile"
    => /\ ft.out = (\E p \in DOMAIN readmePatterns :
                       EqualFold(LastSegment(ft.in), readmePatterns[p]))
       /\ ft.in \in ReadmeExamples => ft.out
       /\ ft.in \in OtherExamples => ~ft.out

\* isReadmeFile has answered true for docs/README.md.
C17_Witness ==
    /\ ft.op = "isReadmeFile"
    /\ ft.in = <<"d", "o", "c", "s", "/", "R", "E", "A", "D", "M",
               "E", ".", "m", "d">>
    /\ ft.out

RecentCommitCalled == ft.op = "FilterByRecentCommit"

\* The repository at position i of the input is in the list returned.
Kept(i) == \E k \in DOMAIN ft.out.list : ft.out.list[k] = ft.in[i]

\* C18: without a client FilterByRecentCommit returns the input
\* repositories, the same elements in the same order, with no error and
\* without a call to GitHub; for an empty input it returns an empty list
\* that is not nil.
C18_NoClientKeepsAll ==
    RecentCommitCalled
    => /\ ft.clientNil
          => /\ ft.out.list = ft.in
             /\ ft.out.err = "nil"
             /\ ft.out.calls = 0
       /\ ft.in = <<>>
          => /\ ft.out.list = <<>>
             /\ ~ft.out.isNil
             /\ ft.out.err = "nil"

\* Without a client two repositories whose only commit touches README.md
\* have both been returned, with no call made.
C18_Witness ==
    /\ RecentCommitCalled
    /\ ft.clientNil
    /\ Len(ft.in) = 2
    /\ \A i \in {1, 2} : ft.world[i].history = <<ReadmeCommit>>
    /\ ft.out.list = ft.in
    /\ ft.out.calls = 0

\* The commits of w that hasNonReadmeCommit is given.
Listed(w) ==
    SubSeq(w.history, 1, Min(Len(w.history), maxCommitsToCheck))

\* A commit that counts as a real one: no file information at all, or a
\* named file that is not a README.
RealCommit(d) ==
    /\ d.ok
    /\ \/ d.files = <<>>
       \/ \E i \in DOMAIN d.files :
             d.files[i] # NilFilename /\ ~isReadmeFile(d.files[i])

\* The listed commits whose detail is fetched: those up to the first real
\* one.
Inspected(w) ==
    {k \in DOMAIN Listed(w) : \A j \in 1..(k - 1) : ~RealCommit(Listed(w)[j])}

\* A fetch has failed for the repository: the commit list, or the detail
\* of an inspected commit.
FetchFailed(w) ==
    /\ w.url = "ok"
    /\ \/ ~w.listOk
       \/ \E k \in Inspected(w) : ~Listed(w)[k].ok

\* C19 as claimed: a repository for which fetching the commit list, or the
\* file list of a commit, has failed is kept.
C19_Original ==
    (RecentCommitCalled /\ ~ft.clientNil)
    => \A i \in DOMAIN ft.in : FetchFailed(ft.world[i]) => Kept(i)

\* C20: when the commit list and the detail of every inspected commit are
\* fetched, a repository is kept exactly when one of its inspected commits,
\* at most the ten most recent, is a real one; with no commits at all it
\* is dropped.
C20_KeptIffRealCommit ==
    (RecentCommitCalled /\ ~ft.clientNil)
    => \A i \in DOMAIN ft.in :
          LET w == ft.world[i]
          IN (w.url = "ok" /\ ~FetchFailed(w))
             => /\ Kept(i) <=> \E k \in Inspected(w) : RealCommit(Listed(w)[k])
                /\ w.history = <<>> => ~Kept(i)

\* Of two repositories with README commits followed by a code commit, the
\* one whose code commit is the tenth most recent has been kept and the
\* one whose code commit is the eleventh has been dropped.
C20_Witness ==
    /\ RecentCommitCalled /\ ~ft.clientNil
    /\ Len(ft.in) = 2
    /\ ft.world[1] = [url |-> "ok", listOk |-> TRUE,
                      history |-> Readmes(9) \o <<CodeCommit>>]
    /\ ft.world[2] = [url |-> "ok", listOk |-> TRUE,
                      history |-> Readmes(10) \o <<CodeCommit>>]
    /\ ft.out.list = <<ft.in[1]>>


----------------------------------------------------------------------------
(* The mining cycle: fetching, counting, cancellation *)

\* The fetcher calls of a cycle, in the order of the code.
FetchOrder == <<"trending">> \o Topics

Sources(c) == [k \in DOMAIN c.fetched |-> c.fetched[k].src]

\* The results of the fetches that succeeded, concatenated in call order.
RECURSIVE Succeeded(_)
Succeeded(f) ==
    IF f = <<>> THEN <<>>
    ELSE (IF Head(f).ok THEN Head(f).out ELSE <<>>) \o Succeeded(Tail(f))

\* C21: a cycle calls the trending fetch and then the fetch of each of the
\* three topics, each exactly once and whatever failed before, and what it
\* hands to the age filter is the concatenation, in call order, of the lists
\* of the fetches that succeeded.
C21_FetchEachOnce ==
    \A s \in Slots :
        LET c == cyc[s]
        IN /\ c.pc \in {"topic", "filterAge", "filterActivity"}
              => Sources(c) = SubSeq(FetchOrder, 1, Len(c.fetched))
           /\ c.pc = "topic" => Len(c.fetched) = c.topic
           /\ c.pc = "filterAge"
              => /\ Sources(c) = FetchOrder
                 /\ c.trending \o c.topicRepos = Succeeded(c.fetched)
           /\ c.pc = "filterActivity"
              => /\ Sources(c) = FetchOrder
                 /\ c.repos = FilterByCreatedAt(Succeeded(c.fetched), MaxDaysOld)

\* The trending fetch and the second topic fetch failed, the first and the
\* third topic fetch returned a repository each, and exactly those two
\* repositories are about to go through the age filter.
C21_Witness ==
    \E s \in Slots :
        LET c == cyc[s]
        IN /\ c.pc = "filterAge"
           /\ [k \in DOMAIN c.fetched |-> c.fetched[k].ok]
                 = <<FALSE, TRUE, FALSE, TRUE>>
           /\ Len(c.fetched[2].out) = 1
           /\ Len(c.fetched[4].out) = 1
           /\ c.trending \o c.topicRepos = c.fetched[2].out \o c.fetched[4].out

\* The repositories for which a cycle's Save, Notify and MarkAsNotified
\* calls all succeeded.
FullyHandled(c) ==
    {id \in IDs :
        \A op \in StoreOps :
            \E k \in DOMAIN c.log :
                c.log[k].op = op /\ c.log[k].id = id /\ c.log[k].ok}

OpsOf(c) == [k \in DOMAIN c.log |-> <<c.log[k].op, c.log[k].id, c.log[k].ok>>]

\* C22: the count a cycle reports is the number of repositories whose Save,
\* Notify and MarkAsNotified calls all succeeded in it; in the end-to-end
\* scenario (repositories aged 3 and 20 days, threshold 10, nothing dropped
\* by the activity filter, a qualifying appraisal of score 80, the survivor
\* absent from the store, a notifier, no failing call, no cancellation)
\* exactly the 3-day-old repository is saved, notified and marked and the
\* count is 1.
C22_CountIsFullyHandled ==
    \A s \in Slots :
        LET c == cyc[s]
        IN /\ c.pc \in {"finish", "done"}
              => c.successCount = Cardinality(FullyHandled(c))
           /\ (c.pc = "done" /\ mode = "scenario" /\ notifierSet
                 /\ ~c.ctxDone /\ "a" \notin c.prior
                 /\ \A i \in DOMAIN c.repos :
                       c.repos[i].flag /\ c.repos[i].score = 80)
              => /\ c.successCount = 1
                 /\ [i \in DOMAIN c.repos |-> c.repos[i].id] = <<"a">>
                 /\ OpsOf(c) = <<<<"Exists", "a", TRUE>>, <<"Save", "a", TRUE>>,
                                 <<"Notify", "a", TRUE>>, <<"Mark", "a", TRUE>>,
                                 <<"Sleep", "a", TRUE>>>>
                 /\ store["a"].present /\ store["a"].notified
                 /\ ~store["c"].present

\* The end-to-end scenario has run: one repository is stored and marked and
\* the count is 1.
C22_Witness ==
    \E s \in Slots :
        /\ mode = "scenario"
        /\ cyc[s].pc = "done"
        /\ ~cyc[s].ctxDone
        /\ "a" \notin cyc[s].prior
        /\ cyc[s].repos # <<>>
        /\ cyc[s].repos[1].score = 80
        /\ cyc[s].successCount = 1
        /\ store["a"].notified

\* C23 as stated: a cycle whose context was cancelled returns an error, and
\* only such a cycle does.
C23_Original ==
    \A s \in Slots :
        cyc[s].pc = "done" => (cyc[s].ret = "error" <=> cyc[s].ctxDone)

\* C23: a cycle whose context was cancelled returns nil like any other: the
\* cancellation ends the persist loop and the call goes to the label finish,
\* where nil is returned; no call has returned an error.
C23_CancelReturnsNil ==
    \A s \in Slots :
        /\ cyc[s].ret \in {"none", "nil"}
        /\ (cyc[s].pc = "done" /\ cyc[s].ctxDone) => cyc[s].ret = "nil"

\* A cycle was cancelled in its persist loop after it had saved a repository,
\* left the loop with repositories to go, and returned nil.
C23_Witness ==
    \E s \in Slots :
        /\ cyc[s].pc = "done"
        /\ cyc[s].cut = "loop"
        /\ cyc[s].idx <= Len(cyc[s].repos)
        /\ \E k \in DOMAIN LogOf(s) : LogOf(s)[k].op = "Save" /\ LogOf(s)[k].ok
        /\ cyc[s].ret = "nil"

\* The two logs of overlapping cycles hold a successful call of op for id.
BothCalled(op, id) ==
    \A s \in Slots :
        \E k \in DOMAIN LogOf(s) :
            LogOf(s)[k].op = op /\ LogOf(s)[k].id = id /\ LogOf(s)[k].ok

BothSawAbsent(id) ==
    \A s \in Slots :
        \E k \in DOMAIN LogOf(s) :
            LogOf(s)[k] = Call("Exists", LogOf(s)[k].i, id, TRUE, FALSE)

\* C25: the existence check and the Save are separate calls, so two
\* overlapping cycles can both save one repository, and they do so exactly
\* when each of them was told by Exists that it was absent.
C25_DoubleSaveByRace ==
    mode = "overlapping"
    => \A id \in IDs : BothCalled("Save", id) => BothSawAbsent(id)

\* Two overlapping cycles have both seen the repository absent, both saved
\* it and both sent its notification.
C25_Witness ==
    /\ mode = "overlapping"
    /\ \E id \in IDs :
          /\ BothSawAbsent(id)
          /\ BothCalled("Save", id)
          /\ BothCalled("Notify", id)

\* The call that must precede the call e of the persist stage.
Before(e) ==
    CASE e.op = "Save"   -> Call("Exists", e.i, e.id, TRUE, FALSE)
      [] e.op = "Notify" -> Call("Save", e.i, e.id, TRUE, FALSE)
      [] e.op = "Mark"   -> Call("Notify", e.i, e.id, TRUE, FALSE)
      [] e.op = "Sleep"  -> Call("Mark", e.i, e.id, TRUE, FALSE)

\* C26: for each repository of the analyzed set the persist stage calls
\* Exists, Save, Notify and MarkAsNotified in this order, each at most once,
\* and each only directly after the success of the one before (for Save:
\* after Exists answered "absent").
C26_CallOrder ==
    \A s \in Slots :
        \A k \in DOMAIN LogOf(s) :
            LET e == LogOf(s)[k]
            IN /\ e.i \in DOMAIN cyc[s].repos
               /\ e.id = cyc[s].repos[e.i].id
               /\ e.op = "Exists" => \A j \in 1..(k - 1) : LogOf(s)[j].i < e.i
               /\ e.op # "Exists" => k > 1 /\ LogOf(s)[k - 1] = Before(e)
               /\ \A j \in DOMAIN LogOf(s) :
                     (LogOf(s)[j].op = e.op /\ LogOf(s)[j].i = e.i) => j = k

\* One cycle has had the Notify call fail for one repository, which ended
\* its iteration, and has saved, notified and marked the next one.
C26_Witness ==
    \E s \in Slots :
        /\ Len(LogOf(s)) >= 7
        /\ [k \in 1..7 |-> <<LogOf(s)[k].op, LogOf(s)[k].i, LogOf(s)[k].ok>>]
              = <<<<"Exists", 1, TRUE>>, <<"Save", 1, TRUE>>,
                  <<"Notify", 1, FALSE>>, <<"Exists", 2, TRUE>>,
                  <<"Save", 2, TRUE>>, <<"Notify", 2, TRUE>>,
                  <<"Mark", 2, TRUE>>>>

\* C27: a failed Exists, Save, Notify or MarkAsNotified ends the iteration
\* of its repository only: a cycle that returned without a cancellation
\* went through the whole analyzed set and called Exists for every
\* qualifying repository in it, and no call was made twice for one position.
C27_FailureDoesNotStopLoop ==
    \A s \in Slots :
        LET c == cyc[s]
        IN /\ (c.pc = "done" /\ ~c.ctxDone)
              => /\ c.idx = Len(c.repos) + 1
                 /\ \A i \in DOMAIN c.repos :
                       Qualifies(c.repos[i])
                       => \E k \in DOMAIN c.log :
                             c.log[k].op = "Exists" /\ c.log[k].i = i
           /\ \A j, k \in DOMAIN c.log :
                 (c.log[j].op = c.log[k].op /\ c.log[j].i = c.log[k].i) => j = k

\* A cycle that was not cancelled has returned after a failed Exists, a
\* failed Save and a later repository that was examined.
C27_Witness ==
    \E s \in Slots :
        /\ cyc[s].pc = "done"
        /\ ~cyc[s].ctxDone
        /\ \E j, k \in DOMAIN LogOf(s) :
              /\ j < k
              /\ LogOf(s)[j].i < LogOf(s)[k].i
              /\ ~LogOf(s)[j].ok
              /\ LogOf(s)[k].op = "Exists"

\* A step of the cycle in slot s (a cancellation of its context is none).
CycleStep(s) == [cyc[s] EXCEPT !.ctxDone = FALSE, !.cut = "none"]
                   # [cyc'[s] EXCEPT !.ctxDone = FALSE, !.cut = "none"]

C28_Step ==
    \A s \in Slots :
        /\ (cyc[s].pc = "loop" /\ cyc[s].ctxDone /\ CycleStep(s))
           => cyc'[s] = [cyc[s] EXCEPT !.pc = "finish"]
        /\ (cyc[s].pc = "finish" /\ CycleStep(s))
           => cyc'[s] = [cyc[s] EXCEPT !.pc = "done", !.ret = "nil"]
        /\ \A k \in DOMAIN cyc'[s].log : cyc'[s].log[k].i <= cyc'[s].idx

\* C28: the first thing an iteration of the persist loop does is look at the
\* context: once it is cancelled the loop is left without a call for any
\* repository whose iteration has not begun, the repositories that remain
\* are not processed, and the call returns nil.
C28_CancelStopsLoop == [][C28_Step]_vars

\* A cancelled cycle has returned nil with a qualifying repository left for
\* which no call was made.
C28_Witness ==
    \E s \in Slots :
        LET c == cyc[s]
        IN /\ c.pc = "done"
           /\ c.ctxDone
           /\ c.ret = "nil"
           /\ c.idx <= Len(c.repos)
           /\ Qualifies(c.repos[c.idx])
           /\ \A k \in DOMAIN c.log : c.log[k].i < c.idx

\* The stages between the first fetch and the persist loop.
LaterStages == PreLoop \ {"trending"}

\* C29 as stated: a cycle whose context is cancelled when a stage ends does
\* not start the next stage.
C29_Original ==
    [][\A s \in Slots :
          (cyc[s].pc \in LaterStages /\ cyc[s].ctxDone /\ CycleStep(s))
          => cyc'[s].pc = "finish"]_vars

\* The stage that follows the step at pc.
StageAfter(pc) ==
    CASE pc = "topic"          -> {"topic", "filterAge"}
      [] pc = "filterAge"      -> {"filterActivity"}
      [] pc = "filterActivity" -> {"growth"}
      [] pc = "growth"         -> {"llm"}
      [] pc = "llm"            -> {"loop"}

C29_Step ==
    \A s \in Slots :
        /\ (cyc[s].pc \in LaterStages /\ cyc[s].ctxDone /\ CycleStep(s))
           => cyc'[s].pc \in StageAfter(cyc[s].pc)
        /\ (cyc[s].pc # "finish" /\ cyc'[s].pc = "finish") => cyc[s].pc = "loop"
        /\ (cyc[s].pc = "loop" /\ cyc[s].ctxDone /\ CycleStep(s))
           => cyc'[s].pc = "finish"

\* C29: the cycle looks at its context in one place only, the top of each
\* iteration of the persist loop: the remaining fetches, the age filter, the
\* activity filter, the growth-rate computation and the LLM analysis are
\* started whether or not the context is cancelled (those that take a
\* context are handed the cancelled one), and a cancelled cycle ends when it
\* reaches the loop.
C29_CheckedInLoopOnly == [][C29_Step]_vars

\* A cycle was cancelled during its first fetch and has returned with a
\* set of repositories that went through the filters, the growth-rate
\* computation and the LLM analysis, for none of which a call was made.
C29_Witness ==
    \E s \in Slots :
        LET c == cyc[s]
        IN /\ c.pc = "done"
           /\ c.cut = "trending"
           /\ c.repos # <<>>
           /\ c.repos[1].review # ""
           /\ c.repos[1].rate # <<0, 1>>
           /\ c.idx = 1
           /\ c.log = <<>>

\* C30 as stated: when the activity filter reports an error the cycle goes
\* on with the repositories that survived the age filter.
C30_Original ==
    [][\A s \in Slots :
          (cyc[s].pc = "filterActivity" /\ cyc'[s].pc = "growth"
             /\ "activity" \in cyc'[s].errs)
          => cyc'[s].repos = cyc[s].repos]_vars

----------------------------------------------------------------------------
(* The worker pool: the number of workers *)

\* A SetMaxGoroutines call: the analyzer is idle before and after, and the
\* argument or the number of workers changed.
SetMaxStep ==
    /\ pool.pc = "idle"
    /\ pool'.pc = "idle"
    /\ pool'.setArg # <<>>
    /\ <<pool.setArg, maxGoroutines>> # <<pool'.setArg, maxGoroutines'>>

\* C24 as stated: a positive argument becomes the number of workers and a
\* non-positive one leaves the analyzer with the default of 3 workers.
C24_Original ==
    [][SetMaxStep
       => maxGoroutines' = IF pool'.setArg[1] > 0 THEN pool'.setArg[1]
                           ELSE DefaultMaxGoroutines]_vars


----------------------------------------------------------------------------
(* The persist loop: delay, pool failure, duplicates, failed Exists *)

\* C31 as stated: two Notify calls of one cycle always have a delay (the
\* Sleep of the loop) between them.
C31_Original ==
    \A s \in Slots :
        \A j, k \in DOMAIN LogOf(s) :
            (j < k /\ LogOf(s)[j].op = "Notify" /\ LogOf(s)[k].op = "Notify")
            => \E m \in (j + 1)..(k - 1) : LogOf(s)[m].op = "Sleep"

\* C38: when the context of a cycle was cancelled before its persist loop
\* and the worker pool reported a failure, the cycle makes no Exists, Save,
\* Notify or MarkAsNotified call: it leaves the loop at the first check,
\* counts nothing and returns nil.
C38_NoCallsAfterPoolFailure ==
    \A s \in Slots :
        LET c == cyc[s]
        IN (c.cut \in PreLoop /\ "llm" \in c.errs)
           => /\ c.log = <<>>
              /\ c.successCount = 0
              /\ c.pc \in {"loop", "finish", "done"}
              /\ c.idx = 1
              /\ c.pc = "done" => c.ret = "nil"

\* A cycle was cancelled during the LLM analysis, the pool reported the
\* failure, and the cycle has returned nil without a call although the
\* returned set holds a qualifying repository that is not stored.
C38_Witness ==
    \E s \in Slots :
        LET c == cyc[s]
        IN /\ c.pc = "done"
           /\ c.cut = "llm"
           /\ "llm" \in c.errs
           /\ c.ret = "nil"
           /\ c.log = <<>>
           /\ \E i \in DOMAIN c.repos :
                 Qualifies(c.repos[i]) /\ ~store[c.repos[i].id].present

\* The positions of the call log of c with a call of op for id that
\* succeeded (any = TRUE: that was made).
LogPositions(c, op, id, any) ==
    {k \in DOMAIN c.log :
        c.log[k].op = op /\ c.log[k].id = id /\ (any \/ c.log[k].ok)}

\* C39: within one cycle Save succeeds at most once and Notify is called at
\* most once for one identifier, however often the identifier occurs in the
\* analyzed set.
C39_DuplicateSavedOnce ==
    \A s \in Slots :
        \A id \in IDs :
            /\ Cardinality(LogPositions(cyc[s], "Save", id, FALSE)) <= 1
            /\ Cardinality(LogPositions(cyc[s], "Notify", id, TRUE)) <= 1

\* The analyzed set holds one identifier twice: its first occurrence was
\* saved and notified, and for the second one Exists answered "present".
C39_Witness ==
    \E s \in Slots :
        LET c == cyc[s]
        IN /\ Len(c.repos) >= 2
           /\ c.repos[1].id = c.repos[2].id
           /\ Len(c.log) >= 3
           /\ c.log[1] = Call("Exists", 1, c.repos[1].id, TRUE, FALSE)
           /\ c.log[2] = Call("Save", 1, c.repos[1].id, TRUE, FALSE)
           /\ c.log[3].op = "Notify"
           /\ c.log[Len(c.log)] = Call("Exists", 2, c.repos[1].id, TRUE, TRUE)

\* The call log of slot s grew by a failed Exists call.
ExistsFailedStep(s) ==
    /\ Len(cyc'[s].log) = Len(cyc[s].log) + 1
    /\ cyc'[s].log[Len(cyc'[s].log)].op = "Exists"
    /\ ~cyc'[s].log[Len(cyc'[s].log)].ok

C40_Step ==
    \A s \in Slots :
        /\ ExistsFailedStep(s)
           => /\ cyc'[s].pc = "loop"
              /\ cyc'[s].idx = cyc[s].idx + 1
              /\ cyc'[s].successCount = cyc[s].successCount
              /\ store' = store
        /\ \A k \in DOMAIN cyc'[s].log :
              (cyc'[s].log[k].op = "Exists" /\ ~cyc'[s].log[k].ok)
              => \A j \in DOMAIN cyc'[s].log :
                    cyc'[s].log[j].i = cyc'[s].log[k].i => j = k

\* C40: when Exists returns an error for an entry of the analyzed set, no
\* Save, Notify or MarkAsNotified call is made for that entry, the count
\* stays as it is, and the loop goes on with the next entry.
C40_ExistsErrorSkips == [][C40_Step]_vars

\* A cycle has returned in which Exists failed for the first entry, counted
\* nothing for it, and the second entry was examined.
C40_Witness ==
    \E s \in Slots :
        LET c == cyc[s]
        IN /\ c.pc = "done"
           /\ Len(c.log) >= 2
           /\ c.log[1].op = "Exists" /\ ~c.log[1].ok /\ c.log[1].i = 1
           /\ c.log[2].op = "Exists" /\ c.log[2].i = 2

----------------------------------------------------------------------------
(* The worker pool: bounded concurrency, hand-off, termination *)

InFlight == {w \in Workers : wk[w].pc = "appraise"}

\* C32: at every moment of an AnalyzeWithLLM call at most maxGoroutines
\* appraiser calls are in flight, and no more than maxGoroutines workers
\* exist, whatever the number of repositories.
C32_BoundedConcurrency ==
    /\ Cardinality(InFlight) <= maxGoroutines
    /\ Cardinality({w \in Workers : Active(w)}) <= maxGoroutines

\* With two workers and three repositories, two appraiser calls are in
\* flight and the third repository waits in the queue.
C32_Witness ==
    /\ maxGoroutines = 2
    /\ Len(pool.input) = 3
    /\ Cardinality(InFlight) = 2
    /\ Len(pool.jobs) = 1

\* The queued items the workers hold.
Held == {wk[w].job : w \in {x \in Workers : Active(x) /\ wk[x].job # 0}}

RECURSIVE Range(_)
Range(q) == IF q = <<>> THEN {} ELSE {Head(q)} \cup Range(Tail(q))

\* C33: a queued repository is held by at most one worker and is then no
\* longer in the queue, the appraiser is called at most once for it, and
\* when the call has returned without cancellation the appraiser was called
\* exactly once for every input repository.
C33_PulledOnce ==
    /\ \A v, w \in Workers :
          (Active(v) /\ Active(w) /\ v # w /\ wk[v].job # 0)
          => wk[v].job # wk[w].job
    /\ Held \cap Range(pool.jobs) = {}
    /\ \A i \in DOMAIN pool.appr : Len(pool.appr[i]) <= 1
    /\ (pool.pc = "returned" /\ pool.ret.err = "nil")
       => \A i \in DOMAIN pool.input : Len(pool.appr[i]) = 1

\* Three repositories went through two workers and the call has returned:
\* one appraiser call each.
C33_Witness ==
    /\ pool.pc = "returned"
    /\ pool.ret.err = "nil"
    /\ maxGoroutines = 2
    /\ Len(pool.input) = 3
    /\ \A i \in 1..3 : Len(pool.appr[i]) = 1

\* The appraisal that a step made for repository i, if it made one.
NewAppraisal(i) ==
    IF Len(pool'.appr[i]) = Len(pool.appr[i]) + 1
    THEN <<pool'.appr[i][Len(pool'.appr[i])]>>
    ELSE <<>>

C34_Step ==
    pool.pc # "idle"
    => \A i \in DOMAIN pool.heap :
          LET a == NewAppraisal(i)
              old == pool.heap[i]
          IN IF a # <<>> /\ a[1].ok
             THEN pool'.heap[i] = [old EXCEPT !.flag = a[1].flag,
                                              !.score = a[1].score,
                                              !.review = a[1].review]
             ELSE pool'.heap[i] = old

\* C34: a successful appraisal overwrites the flag, the score and the review
\* of the appraised repository with the values of the appraisal result and
\* changes nothing else: its other fields and every other repository stay as
\* they were (a failed appraisal changes nothing at all).
C34_OnlyAppraisalFields == [][C34_Step]_vars

\* The first repository was appraised (flag, score 50, review "h") and kept
\* its identifier, stars, age, growth rate and notified flag; the second
\* one, not yet appraised, is as it was handed in.
C34_Witness ==
    /\ Len(pool.input) >= 2
    /\ Len(pool.appr[1]) = 1
    /\ pool.appr[1][1].ok
    /\ pool.appr[2] = <<>>
    /\ pool.heap[1] # pool.input[1]
    /\ pool.heap[1].rate = <<100 * HoursPerDay, Days(3)>>
    /\ pool.heap[1] = [pool.input[1] EXCEPT !.flag = pool.appr[1][1].flag,
                                            !.score = pool.appr[1][1].score,
                                            !.review = pool.appr[1][1].review]
    /\ pool.heap[2] = pool.input[2]

\* A worker that is about to send finds room in the queue.
CanSend ==
    \A w \in Workers :
        /\ wk[w].pc = "sendErr" => ~pool.closed /\ Len(pool.errors) < Cap
        /\ wk[w].pc = "sendRes" => ~pool.closed /\ Len(pool.results) < Cap

AllWorkersExited == \A w \in Workers : wk[w].pc \in {"off", "exited"}

\* C35: under a fair scheduler every AnalyzeWithLLM call returns and every
\* one of its workers exits, and a worker that hands over a result or an
\* error never has to wait, also after the caller has returned on the
\* cancellation path.
C35_Terminates ==
    /\ []CanSend
    /\ (pool.pc # "idle") ~> (pool.pc = "returned" /\ AllWorkersExited)

\* The caller has returned on the cancellation path while a worker still
\* had a result to hand over, and the worker found room for it.
C35_Witness ==
    /\ pool.pc = "returned"
    /\ pool.ret.err = "ctx"
    /\ pool.ret.running # {}
    /\ AllWorkersExited
    /\ Len(pool.results) = Len(pool.input)
    /\ pool.input # <<>>

\* C36: results and errors are closed only when every worker has exited, no
\* worker ever sends on a closed queue, and on the cancellation path the
\* queues are not closed at all.
C36_CloseAfterWorkers ==
    /\ pool.closed => AllWorkersExited
    /\ ~pool.panic
    /\ \A w \in Workers : wk[w].pc # "panicked"
    /\ (pool.pc = "returned" /\ pool.ret.err = "ctx") => ~pool.closed

\* Both paths have been taken: here the call returned on the cancellation
\* path with workers still running and the queues open.
C36_Witness ==
    /\ pool.pc = "returned"
    /\ pool.ret.err = "ctx"
    /\ pool.ret.running # {}
    /\ ~pool.closed
    /\ \E w \in Workers : wk[w].pc = "sendRes"

\* C37 as stated: once the call has returned, no appraiser call is made and
\* no repository is changed.
C37_Original ==
    [][pool.pc = "returned"
       => /\ pool'.appr = pool.appr
          /\ pool'.heap = pool.heap]_vars

====
